---- MODULE Spec2Model ----
(***************************************************************************)
(* fmd: find Markdown files by metadata.  A model of the per-file path of  *)
(* src/src/main.rs: the bounded content reader (read_file_content), the    *)
(* frontmatter parser (extract_frontmatter), the metadata view (Metadata)  *)
(* and the filter evaluator (should_include_file_by_content).              *)
(*                                                                         *)
(* Text is modelled as a sequence of one-character strings, so trimming,   *)
(* splitting into lines, joining and substring search are computed rather  *)
(* than assumed.                                                           *)
(***************************************************************************)
EXTENDS Integers, Sequences, FiniteSets, TLC

VARIABLES
    path,               \* the candidate file's path
    file,               \* the candidate file's content on disk (a descriptor)
    head_lines,         \* Args.head_lines
    full_text,          \* Args.full_text
    verbose,            \* Args.verbose
    pc,                 \* position of the per-file evaluation
    lines_vec,          \* read_file_content: lines_vec
    line_count,         \* read_file_content: line_count
    in_frontmatter,     \* read_file_content: in_frontmatter
    frontmatter_ended,  \* read_file_content: frontmatter_ended
    content,            \* Result<String> of read_file_content
    metadata,           \* Result<Metadata> of Metadata::from_file
    stderr,             \* diagnostics written with eprintln!
    filters,            \* the CompiledFilters the file is evaluated against
    verdict,            \* find_matching_files: whether the path is kept
    args,               \* the Args of the run
    compiled,           \* Result<CompiledFilters> of CompiledFilters::from_args
    files,              \* find_matching_files: files, the enumerated candidates
    pending,            \* candidates the parallel filter has not evaluated yet
    kept,               \* candidates the parallel filter has kept
    matching_files,     \* Result<Vec<PathBuf>> of find_matching_files
    result              \* the value returned by a Metadata method applied alone

vars == <<path, file, head_lines, full_text, verbose, pc, lines_vec, line_count,
          in_frontmatter, frontmatter_ended, content, metadata, stderr,
          filters, verdict, args, compiled, files, pending, kept, matching_files,
          result>>

\* the state of the run around the per-file evaluation
run_vars == <<args, compiled, files, pending, kept, matching_files, result>>

(***************************************************************************)
(* Program constants and model bounds                                      *)
(***************************************************************************)
MAX_FRONTMATTER_LINES == 1000

\* largest head budget (--head) tried on the short files
MaxHead == 2

\* how far past MAX_FRONTMATTER_LINES the long files' filler runs reach
PadSlack == 1

(***************************************************************************)
(* Characters and strings                                                  *)
(***************************************************************************)
NL == "\n"

\* char::is_whitespace, on the characters of the model
IsWhitespace(c) == c \in {" ", "\t", "\n", "\r"}

Min(S) == CHOOSE x \in S : \A y \in S : x <= y
Max(S) == CHOOSE x \in S : \A y \in S : x >= y

\* str::trim_start
TrimStart(s) ==
    LET keep == {i \in 1..Len(s) : ~IsWhitespace(s[i])}
    IN  IF keep = {} THEN <<>> ELSE SubSeq(s, Min(keep), Len(s))

\* str::trim_end
TrimEnd(s) ==
    LET keep == {i \in 1..Len(s) : ~IsWhitespace(s[i])}
    IN  IF keep = {} THEN <<>> ELSE SubSeq(s, 1, Max(keep))

\* str::trim
Trim(s) == TrimEnd(TrimStart(s))

UPPER == <<"A", "B", "C", "D", "E", "F", "G", "H", "I", "J", "K", "L", "M",
           "N", "O", "P", "Q", "R", "S", "T", "U", "V", "W", "X", "Y", "Z">>
LOWER == <<"a", "b", "c", "d", "e", "f", "g", "h", "i", "j", "k", "l", "m",
           "n", "o", "p", "q", "r", "s", "t", "u", "v", "w", "x", "y", "z">>

\* char::to_lowercase, on ASCII
LowerChar(c) ==
    IF \E i \in 1..Len(UPPER) : UPPER[i] = c
    THEN LOWER[CHOOSE i \in 1..Len(UPPER) : UPPER[i] = c]
    ELSE c

\* str::to_lowercase
ToLower(s) == [i \in 1..Len(s) |-> LowerChar(s[i])]

\* str::eq_ignore_ascii_case
EqIgnoreCase(a, b) == ToLower(a) = ToLower(b)

\* str::contains(&str)
Contains(hay, needle) ==
    \E i \in 0..(Len(hay) - Len(needle)) : SubSeq(hay, i + 1, i + Len(needle)) = needle

\* str::starts_with
StartsWith(s, prefix) == Len(s) >= Len(prefix) /\ SubSeq(s, 1, Len(prefix)) = prefix

\* str::find(char): the index of the first occurrence, 0 when there is none
Find(s, c) ==
    LET at == {i \in 1..Len(s) : s[i] = c}
    IN  IF at = {} THEN 0 ELSE Min(at)

IsDigit(c) == c \in {"0", "1", "2", "3", "4", "5", "6", "7", "8", "9"}

\* [[:word:]] of the regex crate: letters, digits and the underscore
IsWordChar(c) ==
    \/ IsDigit(c)
    \/ c = "_"
    \/ \E i \in 1..Len(UPPER) : c = UPPER[i] \/ c = LOWER[i]

\* [String]::join("\n"), by halving so that long line lists stay shallow
RECURSIVE JoinRange(_, _, _)
JoinRange(ls, lo, hi) ==
    IF lo > hi THEN <<>>
    ELSE IF lo = hi THEN ls[lo]
    ELSE LET mid == (lo + hi) \div 2
         IN  JoinRange(ls, lo, mid) \o <<NL>> \o JoinRange(ls, mid + 1, hi)

Join(ls) == JoinRange(ls, 1, Len(ls))

\* str::split(sep): the pieces between separators (always at least one piece)
RECURSIVE SplitRange(_, _, _, _)
SplitRange(t, sep, lo, hi) ==
    IF lo > hi THEN << <<>> >>
    ELSE IF lo = hi THEN (IF t[lo] = sep THEN << <<>>, <<>> >> ELSE << <<t[lo]>> >>)
    ELSE LET mid == (lo + hi) \div 2
             l == SplitRange(t, sep, lo, mid)
             r == SplitRange(t, sep, mid + 1, hi)
         IN  SubSeq(l, 1, Len(l) - 1) \o << l[Len(l)] \o r[1] >> \o Tail(r)

Split(t, sep) == SplitRange(t, sep, 1, Len(t))

\* str::lines: split on "\n", no final empty line, a trailing "\r" removed
StripCR(l) == IF Len(l) > 0 /\ l[Len(l)] = "\r" THEN SubSeq(l, 1, Len(l) - 1) ELSE l

Lines(t) ==
    LET pieces == Split(t, NL)
        whole == IF pieces[Len(pieces)] = <<>>
                 THEN SubSeq(pieces, 1, Len(pieces) - 1) ELSE pieces
    IN  [i \in 1..Len(whole) |-> StripCR(whole[i])]

DELIM == <<"-", "-", "-">>

(***************************************************************************)
(* Files                                                                   *)
(* A file on disk is head lines, then `pad` copies of a filler line, then  *)
(* tail lines; `nl` says whether the last line ends with a newline, and    *)
(* `crlf` whether the file's newlines are "\r\n". The lines are held as     *)
(* BufRead::lines() yields them, without their terminator.                 *)
(***************************************************************************)
FILLER == <<"x">>

NumLines(f) == Len(f.head) + f.pad + Len(f.tail)

LineAt(f, i) ==
    IF i <= Len(f.head) THEN f.head[i]
    ELSE IF i <= Len(f.head) + f.pad THEN FILLER
    ELSE f.tail[i - Len(f.head) - f.pad]

FileLines(f) == [i \in 1..NumLines(f) |-> LineAt(f, i)]

\* the lines with the carriage return that precedes each newline of a CRLF file
TerminatedLines(f) ==
    [i \in 1..NumLines(f) |->
        IF f.crlf /\ (i < NumLines(f) \/ f.nl) THEN LineAt(f, i) \o <<"\r">> ELSE LineAt(f, i)]

\* the bytes of the file as text
FileText(f) == Join(TerminatedLines(f)) \o (IF f.nl /\ NumLines(f) > 0 THEN <<NL>> ELSE <<>>)

Ok(v) == [tag |-> "Ok", val |-> v]
Err(kind, p) == [tag |-> "Err", kind |-> kind, path |-> p]
None == [tag |-> "None"]
Some(v) == [tag |-> "Some", val |-> v]


(***************************************************************************)
(* read_file_content                                                       *)
(***************************************************************************)
\* full_text: fs::read_to_string
ReadFull ==
    /\ pc = "start"
    /\ full_text
    /\ content' = IF file.readable THEN Ok(FileText(file)) ELSE Err("ReadFailed", path)
    /\ pc' = "read"
    /\ UNCHANGED <<path, file, head_lines, full_text, verbose, lines_vec, line_count,
                   in_frontmatter, frontmatter_ended, metadata, stderr, filters, verdict>>
    /\ UNCHANGED run_vars

\* bounded mode: File::open and the loop's variables
OpenFile ==
    /\ pc = "start"
    /\ ~full_text
    /\ IF file.readable
       THEN /\ lines_vec' = <<>>
            /\ line_count' = 0
            /\ in_frontmatter' = FALSE
            /\ frontmatter_ended' = FALSE
            /\ content' = content
            /\ pc' = "loop"
       ELSE /\ content' = Err("OpenFailed", path)
            /\ pc' = "read"
            /\ UNCHANGED <<lines_vec, line_count, in_frontmatter, frontmatter_ended>>
    /\ UNCHANGED <<path, file, head_lines, full_text, verbose, metadata,
                   stderr, filters, verdict>>
    /\ UNCHANGED run_vars

\* the frontmatter tracking of one loop iteration: <<in_frontmatter, frontmatter_ended>>
TrackFrontmatter(line, count, inFm, ended) ==
    LET trimmed == Trim(line)
    IN  IF count = 0 /\ trimmed = DELIM THEN <<TRUE, ended>>
        ELSE IF inFm /\ trimmed = DELIM THEN <<FALSE, TRUE>>
        ELSE <<inFm, ended>>

\* faulty variant: the ceiling is hit one line early
TooLarge_AtLimit(inFm, count) == inFm /\ count >= MAX_FRONTMATTER_LINES

\* the check for excessively large frontmatter
TooLarge(inFm, count) == inFm /\ count > MAX_FRONTMATTER_LINES

\* faulty variant: the budget alone ends the read
StopReading_IgnoresFrontmatter(count, budget, inFm, ended) == count >= budget

\* faulty variant: one line more than the budget is read
StopReading_OffByOne(count, budget, inFm, ended) == count > budget /\ (~inFm \/ ended)

\* faulty variant: the budget never ends the read
StopReading_Never(count, budget, inFm, ended) == FALSE

\* the loop's break condition
StopReading(count, budget, inFm, ended) == count >= budget /\ (~inFm \/ ended)

\* one iteration of `for line_result in reader.lines()`
ReadLine ==
    /\ pc = "loop"
    /\ line_count < NumLines(file)
    /\ LET line == LineAt(file, line_count + 1)
           t == TrackFrontmatter(line, line_count, in_frontmatter, frontmatter_ended)
           vec == Append(lines_vec, line)
           count == line_count + 1
       IN  /\ in_frontmatter' = t[1]
           /\ frontmatter_ended' = t[2]
           /\ lines_vec' = vec
           /\ line_count' = count
           /\ IF TooLarge(t[1], count)
              THEN /\ content' = Err("FrontmatterTooLarge", path)
                   /\ pc' = "read"
              ELSE IF StopReading(count, head_lines, t[1], t[2])
              THEN /\ content' = Ok(Join(vec))
                   /\ pc' = "read"
              ELSE /\ content' = content
                   /\ pc' = "loop"
    /\ UNCHANGED <<path, file, head_lines, full_text, verbose, metadata, stderr,
                   filters, verdict>>
    /\ UNCHANGED run_vars

\* the reader is exhausted: the loop ends and the lines read are joined
ReadEof ==
    /\ pc = "loop"
    /\ line_count = NumLines(file)
    /\ content' = Ok(Join(lines_vec))
    /\ pc' = "read"
    /\ UNCHANGED <<path, file, head_lines, full_text, verbose, lines_vec, line_count,
                   in_frontmatter, frontmatter_ended, metadata, stderr, filters, verdict>>
    /\ UNCHANGED run_vars

(***************************************************************************)
(* serde_yaml::from_str::<Frontmatter>, on the YAML the model's files use: *)
(* a block of top-level `key: value` lines, comment lines and blank lines; *)
(* a value is empty, a plain scalar or a one-line flow sequence.           *)
(***************************************************************************)
YNull == [kind |-> "Null"]
YString(v) == [kind |-> "String", s |-> v]
YNumber(v) == [kind |-> "Number", s |-> v]
YBool(v) == [kind |-> "Bool", s |-> v]
YSequence(items) == [kind |-> "Sequence", items |-> items]
YInvalid == [kind |-> "Invalid"]

STR_TRUE == <<"t", "r", "u", "e">>
STR_FALSE == <<"f", "a", "l", "s", "e">>

\* a plain scalar: a boolean, an integer or a string
YamlScalar(v) ==
    IF v = <<>> THEN YNull
    ELSE IF v = STR_TRUE \/ v = STR_FALSE THEN YBool(v)
    ELSE IF \A i \in 1..Len(v) : IsDigit(v[i]) THEN YNumber(v)
    ELSE YString(v)

\* the value after `key:`; YInvalid stands for a syntax error
YamlValue(rest) ==
    LET v == Trim(rest)
    IN  IF v = <<>> THEN YNull
        ELSE IF v[1] = "#" THEN YNull
        ELSE IF v[1] = "["
        THEN IF v[Len(v)] # "]" THEN YInvalid
             ELSE LET inner == Trim(SubSeq(v, 2, Len(v) - 1))
                      parts == IF inner = <<>> THEN <<>> ELSE Split(inner, ",")
                  IN  YSequence([i \in 1..Len(parts) |-> YamlScalar(Trim(parts[i]))])
        ELSE YamlScalar(v)

\* how the YAML scanner sees one line of the block
YamlLineKind(l) ==
    LET t == Trim(l)
        colon == Find(l, ":")
    IN  IF t = <<>> THEN "blank"
        ELSE IF t[1] = "#" THEN "comment"
        ELSE IF /\ colon > 1
                /\ ~IsWhitespace(l[1])
                /\ (colon = Len(l) \/ IsWhitespace(l[colon + 1]))
        THEN "entry"
        ELSE "other"

YamlKey(l) == SubSeq(l, 1, Find(l, ":") - 1)
YamlEntryValue(l) == YamlValue(SubSeq(l, Find(l, ":") + 1, Len(l)))

KEY_TITLE == <<"t", "i", "t", "l", "e">>
KEY_AUTHOR == <<"a", "u", "t", "h", "o", "r">>
KEY_TAGS == <<"t", "a", "g", "s">>

\* Option<String>: a string, or nothing for null; anything else is a type error
IsOptString(v) == v.kind \in {"Null", "String"}
OptString(v) == IF v.kind = "String" THEN Some(v.s) ELSE None

\* Option<TagValue>, untagged: Single(String) or Array(Vec<String>)
IsOptTagValue(v) ==
    \/ v.kind \in {"Null", "String"}
    \/ v.kind = "Sequence" /\ \A i \in 1..Len(v.items) : v.items[i].kind = "String"

OptTagValue(v) ==
    IF v.kind = "String" THEN Some([variant |-> "Single", tag |-> v.s])
    ELSE IF v.kind = "Sequence"
    THEN Some([variant |-> "Array", tags |-> [i \in 1..Len(v.items) |-> v.items[i].s]])
    ELSE None

\* the struct Frontmatter with its defaults
DefaultFrontmatter == [title |-> None, author |-> None, tags |-> None, extra |-> {}]

\* the value of `key` in the block's entries (the block has the key once)
EntryOf(ls, key) ==
    LET i == CHOOSE i \in 1..Len(ls) : YamlLineKind(ls[i]) = "entry" /\ YamlKey(ls[i]) = key
    IN  YamlEntryValue(ls[i])

HasEntry(ls, key) ==
    \E i \in 1..Len(ls) : YamlLineKind(ls[i]) = "entry" /\ YamlKey(ls[i]) = key

\* serde_yaml::from_str(&yaml_content) into Frontmatter
FromYaml(ls) ==
    LET entries == {i \in 1..Len(ls) : YamlLineKind(ls[i]) = "entry"}
        syntaxOk ==
            /\ \A i \in 1..Len(ls) : YamlLineKind(ls[i]) # "other"
            /\ \A i \in entries : YamlEntryValue(ls[i]).kind # "Invalid"
            /\ \A i, j \in entries : YamlKey(ls[i]) = YamlKey(ls[j]) => i = j
        typesOk ==
            /\ HasEntry(ls, KEY_TITLE) => IsOptString(EntryOf(ls, KEY_TITLE))
            /\ HasEntry(ls, KEY_AUTHOR) => IsOptString(EntryOf(ls, KEY_AUTHOR))
            /\ HasEntry(ls, KEY_TAGS) => IsOptTagValue(EntryOf(ls, KEY_TAGS))
    IN  IF ~syntaxOk THEN [tag |-> "Err", kind |-> "YamlSyntax"]
        ELSE IF ~typesOk THEN [tag |-> "Err", kind |-> "YamlType"]
        ELSE Ok([title  |-> IF HasEntry(ls, KEY_TITLE)
                            THEN OptString(EntryOf(ls, KEY_TITLE)) ELSE None,
                 author |-> IF HasEntry(ls, KEY_AUTHOR)
                            THEN OptString(EntryOf(ls, KEY_AUTHOR)) ELSE None,
                 tags   |-> IF HasEntry(ls, KEY_TAGS)
                            THEN OptTagValue(EntryOf(ls, KEY_TAGS)) ELSE None,
                 extra  |-> {<<YamlKey(ls[i]), YamlEntryValue(ls[i])>> :
                                i \in {j \in entries :
                                    YamlKey(ls[j]) \notin {KEY_TITLE, KEY_AUTHOR, KEY_TAGS}}}])

(***************************************************************************)
(* extract_frontmatter                                                     *)
(***************************************************************************)
\* faulty variant: a block without a closing delimiter collects nothing
YamlLines_NeedsClosing(ls) ==
    LET closing == {i \in 2..Len(ls) : Trim(ls[i]) = DELIM}
    IN  IF closing = {} THEN <<>> ELSE SubSeq(ls, 2, Min(closing) - 1)

\* the lines collected between the opening delimiter and the next one
YamlLines(ls) ==
    LET closing == {i \in 2..Len(ls) : Trim(ls[i]) = DELIM}
        last == IF closing = {} THEN Len(ls) ELSE Min(closing) - 1
    IN  SubSeq(ls, 2, last)

\* faulty variant: blank lines before the opening delimiter are skipped
ExtractFrontmatter_SkipsBlank(text) ==
    LET all == Lines(text)
        solid == {i \in 1..Len(all) : Trim(all[i]) # <<>>}
        ls == IF solid = {} THEN <<>> ELSE SubSeq(all, Min(solid), Len(all))
    IN  IF ls = <<>> THEN [fm |-> None, warn |-> FALSE]
        ELSE IF Trim(ls[1]) # DELIM THEN [fm |-> None, warn |-> FALSE]
        ELSE IF YamlLines(ls) = <<>> THEN [fm |-> None, warn |-> FALSE]
        ELSE LET parsed == FromYaml(Lines(Join(YamlLines(ls))))
             IN  IF parsed.tag = "Ok"
                 THEN [fm |-> Some(parsed.val), warn |-> FALSE]
                 ELSE [fm |-> None, warn |-> TRUE]

\* faulty variant: an empty block is handed to the YAML parser
ExtractFrontmatter_NoEmptyCheck(text) ==
    LET ls == Lines(text)
    IN  IF ls = <<>> THEN [fm |-> None, warn |-> FALSE]
        ELSE IF Trim(ls[1]) # DELIM THEN [fm |-> None, warn |-> FALSE]
        ELSE LET parsed == FromYaml(Lines(Join(YamlLines(ls))))
             IN  IF parsed.tag = "Ok"
                 THEN [fm |-> Some(parsed.val), warn |-> FALSE]
                 ELSE [fm |-> None, warn |-> TRUE]

\* faulty variant: a block that fails to parse yields an empty Frontmatter
ExtractFrontmatter_Lenient(text) ==
    LET ls == Lines(text)
    IN  IF ls = <<>> THEN [fm |-> None, warn |-> FALSE]
        ELSE IF Trim(ls[1]) # DELIM THEN [fm |-> None, warn |-> FALSE]
        ELSE IF YamlLines(ls) = <<>> THEN [fm |-> None, warn |-> FALSE]
        ELSE LET parsed == FromYaml(Lines(Join(YamlLines(ls))))
             IN  IF parsed.tag = "Ok"
                 THEN [fm |-> Some(parsed.val), warn |-> FALSE]
                 ELSE [fm |-> Some(DefaultFrontmatter), warn |-> TRUE]

\* the outcome of extract_frontmatter(content, path):
\*   fm: the Option<Frontmatter> returned; warn: whether the warning is printed
ExtractFrontmatter(text) ==
    LET ls == Lines(text)
    IN  IF ls = <<>> THEN [fm |-> None, warn |-> FALSE]
        ELSE IF Trim(ls[1]) # DELIM THEN [fm |-> None, warn |-> FALSE]
        ELSE IF YamlLines(ls) = <<>> THEN [fm |-> None, warn |-> FALSE]
        ELSE LET parsed == FromYaml(Lines(Join(YamlLines(ls))))
             IN  IF parsed.tag = "Ok"
                 THEN [fm |-> Some(parsed.val), warn |-> FALSE]
                 ELSE [fm |-> None, warn |-> TRUE]

(***************************************************************************)
(* NaiveDate::parse_from_str(s, "%Y-%m-%d"): a date as <<year, month, day>>*)
(***************************************************************************)
DigitValue(c) ==
    CASE c = "0" -> 0 [] c = "1" -> 1 [] c = "2" -> 2 [] c = "3" -> 3 [] c = "4" -> 4
      [] c = "5" -> 5 [] c = "6" -> 6 [] c = "7" -> 7 [] c = "8" -> 8 [] c = "9" -> 9

RECURSIVE NumberOf(_)
NumberOf(ds) ==
    IF ds = <<>> THEN 0
    ELSE 10 * NumberOf(SubSeq(ds, 1, Len(ds) - 1)) + DigitValue(ds[Len(ds)])

AllDigits(ds) == ds # <<>> /\ \A i \in 1..Len(ds) : IsDigit(ds[i])

IsLeapYear(y) == (y % 4 = 0 /\ y % 100 # 0) \/ y % 400 = 0

DaysInMonth(y, m) ==
    IF m = 2 THEN (IF IsLeapYear(y) THEN 29 ELSE 28)
    ELSE IF m \in {4, 6, 9, 11} THEN 30 ELSE 31

\* each numeric item skips leading whitespace and takes 1 to its width of
\* digits (4, 2, 2); a year with a sign takes any number of digits; the
\* whole text must be consumed and the date must exist
ParseDate(str) ==
    LET t == TrimStart(str)
        negative == t # <<>> /\ t[1] = "-"
        parts == Split(IF negative THEN Tail(t) ELSE t, "-")
        signed == negative \/ (t # <<>> /\ t[1] = "+")
        year == IF Len(parts) = 0 THEN <<>>
                ELSE IF ~negative /\ signed THEN Tail(parts[1])
                ELSE parts[1]
    IN  IF /\ Len(parts) = 3
           /\ AllDigits(year) /\ (signed \/ Len(year) <= 4)
           /\ AllDigits(TrimStart(parts[2])) /\ Len(TrimStart(parts[2])) <= 2
           /\ AllDigits(TrimStart(parts[3])) /\ Len(TrimStart(parts[3])) <= 2
        THEN LET y == IF negative THEN 0 - NumberOf(year) ELSE NumberOf(year)
                 m == NumberOf(TrimStart(parts[2]))
                 d == NumberOf(TrimStart(parts[3]))
             IN  IF y \in (0 - 262144)..262143 /\ m \in 1..12 /\ d \in 1..DaysInMonth(y, m)
                 THEN Some(<<y, m, d>>) ELSE None
        ELSE None

\* the order of NaiveDate
DateLeq(a, b) ==
    \/ a[1] < b[1]
    \/ a[1] = b[1] /\ a[2] < b[2]
    \/ a[1] = b[1] /\ a[2] = b[2] /\ a[3] <= b[3]

(***************************************************************************)
(* TagValue, yaml_value_contains, parse_date_from_yaml_value               *)
(***************************************************************************)
\* faulty variant: a tag matches only as a whole
ContainsTag_WholeTag(tv, pattern) ==
    LET pattern_lower == ToLower(pattern)
    IN  IF tv.variant = "Single" THEN ToLower(tv.tag) = pattern_lower
        ELSE \E i \in 1..Len(tv.tags) : ToLower(tv.tags[i]) = pattern_lower

ContainsTag(tv, pattern) ==
    LET pattern_lower == ToLower(pattern)
    IN  IF tv.variant = "Single" THEN Contains(ToLower(tv.tag), pattern_lower)
        ELSE \E i \in 1..Len(tv.tags) : Contains(ToLower(tv.tags[i]), pattern_lower)

\* a scalar carries its to_string() form in s; Null, Mapping and Tagged values
\* fall to the `_ => false` arm
RECURSIVE YamlValueContains(_, _)
YamlValueContains(value, pattern_lower) ==
    IF value.kind \in {"String", "Number", "Bool"}
    THEN Contains(ToLower(value.s), pattern_lower)
    ELSE IF value.kind = "Sequence"
    THEN \E i \in 1..Len(value.items) : YamlValueContains(value.items[i], pattern_lower)
    ELSE FALSE

ParseDateFromYamlValue(value) ==
    IF value.kind = "String" THEN ParseDate(value.s) ELSE None

(***************************************************************************)
(* The tag regex (^|[^[:word:]])#<escaped pattern>([^[:word:]]|$),         *)
(* case-insensitive: Regex::is_match                                       *)
(***************************************************************************)
TagRegex(pattern) == [kind |-> "tag", literal |-> <<"#">> \o pattern]

\* faulty variant: nothing is required of the character after the tag
RegexIsMatch_OpenEnd(regex, text) ==
    LET lit == ToLower(regex.literal)
        n == Len(lit)
    IN  \E i \in 1..(Len(text) - n + 1) :
            /\ ToLower(SubSeq(text, i, i + n - 1)) = lit
            /\ (i = 1 \/ ~IsWordChar(text[i - 1]))

RegexIsMatch(regex, text) ==
    LET lit == ToLower(regex.literal)
        n == Len(lit)
    IN  \E i \in 1..(Len(text) - n + 1) :
            /\ ToLower(SubSeq(text, i, i + n - 1)) = lit
            /\ (i = 1 \/ ~IsWordChar(text[i - 1]))
            /\ (i + n - 1 = Len(text) \/ ~IsWordChar(text[i + n]))

(***************************************************************************)
(* Metadata: [frontmatter: Option<Frontmatter>, raw_content: String]       *)
(***************************************************************************)
\* the `key: value` scan shared by has_author and has_field
InlineKeyValue(raw_content, key, pattern_lower) ==
    LET ls == Lines(raw_content)
    IN  \E i \in 1..Len(ls) :
            LET trimmed == TrimStart(ls[i])
                colon_pos == Find(trimmed, ":")
            IN  /\ colon_pos > 0
                /\ EqIgnoreCase(SubSeq(trimmed, 1, colon_pos - 1), key)
                /\ Contains(ToLower(SubSeq(trimmed, colon_pos + 1, Len(trimmed))),
                            pattern_lower)

\* faulty variant: the inline tags are looked at only when there is no frontmatter
HasTag_FrontmatterFirst(md, pattern_lower, tag_regex) ==
    IF md.frontmatter.tag = "Some"
    THEN /\ md.frontmatter.val.tags.tag = "Some"
         /\ ContainsTag(md.frontmatter.val.tags.val, pattern_lower)
    ELSE RegexIsMatch(tag_regex, md.raw_content)

HasTag(md, pattern_lower, tag_regex) ==
    \/ /\ md.frontmatter.tag = "Some"
       /\ md.frontmatter.val.tags.tag = "Some"
       /\ ContainsTag(md.frontmatter.val.tags.val, pattern_lower)
    \/ RegexIsMatch(tag_regex, md.raw_content)

MAX_HEADING_LEVEL == 6

\* the number of leading '#' characters
LeadingHashes(trimmed) ==
    LET other == {i \in 1..Len(trimmed) : trimmed[i] # "#"}
    IN  IF other = {} THEN Len(trimmed) ELSE Min(other) - 1

\* faulty variant: a heading may have any number of hashes
HeadingContains_AnyLevel(raw_content, pattern_lower) ==
    LET ls == Lines(raw_content)
    IN  \E i \in 1..Len(ls) :
            LET trimmed == TrimStart(ls[i])
                hashes == LeadingHashes(trimmed)
                after == SubSeq(trimmed, hashes + 1, Len(trimmed))
            IN  /\ hashes >= 1
                /\ StartsWith(after, <<" ">>)
                /\ Contains(ToLower(after), pattern_lower)

\* the heading scan of has_title
HeadingContains(raw_content, pattern_lower) ==
    LET ls == Lines(raw_content)
    IN  \E i \in 1..Len(ls) :
            LET trimmed == TrimStart(ls[i])
                hashes == LeadingHashes(trimmed)
                after == SubSeq(trimmed, hashes + 1, Len(trimmed))
            IN  /\ hashes \in 1..MAX_HEADING_LEVEL
                /\ StartsWith(after, <<" ">>)
                /\ Contains(ToLower(after), pattern_lower)

HasTitle(md, pattern_lower) ==
    \/ /\ md.frontmatter.tag = "Some"
       /\ md.frontmatter.val.title.tag = "Some"
       /\ Contains(ToLower(md.frontmatter.val.title.val), pattern_lower)
    \/ HeadingContains(md.raw_content, pattern_lower)

\* faulty variant: a frontmatter author hides the inline author lines
HasAuthor_FrontmatterFirst(md, pattern_lower) ==
    IF md.frontmatter.tag = "Some" /\ md.frontmatter.val.author.tag = "Some"
    THEN Contains(ToLower(md.frontmatter.val.author.val), pattern_lower)
    ELSE InlineKeyValue(md.raw_content, KEY_AUTHOR, pattern_lower)

HasAuthor(md, pattern_lower) ==
    \/ /\ md.frontmatter.tag = "Some"
       /\ md.frontmatter.val.author.tag = "Some"
       /\ Contains(ToLower(md.frontmatter.val.author.val), pattern_lower)
    \/ InlineKeyValue(md.raw_content, KEY_AUTHOR, pattern_lower)

\* faulty variant: only a scalar frontmatter value is searched
HasField_ScalarOnly(md, field_name, pattern_lower) ==
    \/ /\ md.frontmatter.tag = "Some"
       /\ \E e \in md.frontmatter.val.extra :
              /\ e[1] = field_name
              /\ e[2].kind \in {"String", "Number", "Bool"}
              /\ Contains(ToLower(e[2].s), pattern_lower)
    \/ InlineKeyValue(md.raw_content, field_name, pattern_lower)

\* faulty variant: the typed title and author are looked up like extra keys
HasField_TypedToo(md, field_name, pattern_lower) ==
    \/ /\ md.frontmatter.tag = "Some"
       /\ \/ \E e \in md.frontmatter.val.extra :
                 e[1] = field_name /\ YamlValueContains(e[2], pattern_lower)
          \/ /\ field_name = KEY_TITLE
             /\ md.frontmatter.val.title.tag = "Some"
             /\ Contains(ToLower(md.frontmatter.val.title.val), pattern_lower)
          \/ /\ field_name = KEY_AUTHOR
             /\ md.frontmatter.val.author.tag = "Some"
             /\ Contains(ToLower(md.frontmatter.val.author.val), pattern_lower)
    \/ InlineKeyValue(md.raw_content, field_name, pattern_lower)

HasField(md, field_name, pattern_lower) ==
    \/ /\ md.frontmatter.tag = "Some"
       /\ \E e \in md.frontmatter.val.extra :
              e[1] = field_name /\ YamlValueContains(e[2], pattern_lower)
    \/ InlineKeyValue(md.raw_content, field_name, pattern_lower)

DATE_FIELDS == << <<"d", "a", "t", "e">>,
                 <<"c", "r", "e", "a", "t", "e", "d">>,
                 <<"u", "p", "d", "a", "t", "e", "d">>,
                 <<"m", "o", "d", "i", "f", "i", "e", "d">> >>

\* the dates pushed from the frontmatter, in the order of date_fields
FrontmatterDates(fm) ==
    LET Found(f) == {e \in fm.extra : e[1] = f /\ ParseDateFromYamlValue(e[2]).tag = "Some"}
        Pushed(f) == IF Found(f) = {} THEN <<>>
                     ELSE <<ParseDateFromYamlValue((CHOOSE e \in Found(f) : TRUE)[2]).val>>
    IN  Pushed(DATE_FIELDS[1]) \o Pushed(DATE_FIELDS[2]) \o Pushed(DATE_FIELDS[3])
        \o Pushed(DATE_FIELDS[4])

\* the dates pushed by the inline `key: value` scan, in line order
InlineDates(raw_content) ==
    LET ls == Lines(raw_content)
        ValueOf(l) == Trim(SubSeq(TrimStart(l), Find(TrimStart(l), ":") + 1,
                                  Len(TrimStart(l))))
        Dated(l) ==
            LET trimmed == TrimStart(l)
                colon_pos == Find(trimmed, ":")
            IN  /\ colon_pos > 0
                /\ \E k \in 1..Len(DATE_FIELDS) :
                      EqIgnoreCase(Trim(SubSeq(trimmed, 1, colon_pos - 1)), DATE_FIELDS[k])
                /\ ParseDate(ValueOf(l)).tag = "Some"
        dated == SelectSeq(ls, Dated)
    IN  [i \in 1..Len(dated) |-> ParseDate(ValueOf(dated[i])).val]

\* [NaiveDate]::sort, by insertion
RECURSIVE SortDates(_)
SortDates(ds) ==
    IF ds = <<>> THEN <<>>
    ELSE LET rest == SortDates(Tail(ds))
             before == SelectSeq(rest, LAMBDA d : DateLeq(d, ds[1]) /\ d # ds[1])
             after == SelectSeq(rest, LAMBDA d : ~(DateLeq(d, ds[1]) /\ d # ds[1]))
         IN  before \o <<ds[1]>> \o after

\* Vec::dedup: of a run of equal elements the first is kept
Dedup(ds) ==
    LET first == {i \in 1..Len(ds) : i = 1 \/ ds[i] # ds[i - 1]}
        Nth(k) == CHOOSE i \in first : Cardinality({j \in first : j < i}) = k - 1
    IN  [k \in 1..Cardinality(first) |-> ds[Nth(k)]]

\* faulty variant: the inline lines are scanned whether or not there is frontmatter
ExtractDates_AlwaysInline(md) ==
    Dedup(SortDates((IF md.frontmatter.tag = "Some"
                     THEN FrontmatterDates(md.frontmatter.val) ELSE <<>>)
                    \o InlineDates(md.raw_content)))

ExtractDates(md) ==
    Dedup(SortDates(IF md.frontmatter.tag = "Some"
                    THEN FrontmatterDates(md.frontmatter.val)
                    ELSE InlineDates(md.raw_content)))

\* faulty variant: each bound may be met by a different date
MatchesDateFilters_AnyPair(md, date_after, date_before) ==
    LET dates == ExtractDates(md)
    IN  /\ dates # <<>>
        /\ \E i \in 1..Len(dates) :
               date_after.tag = "None" \/ DateLeq(date_after.val, dates[i])
        /\ \E i \in 1..Len(dates) :
               date_before.tag = "None" \/ DateLeq(dates[i], date_before.val)

MatchesDateFilters(md, date_after, date_before) ==
    LET dates == ExtractDates(md)
    IN  IF dates = <<>> THEN FALSE
        ELSE \E i \in 1..Len(dates) :
                /\ (date_after.tag = "None" \/ DateLeq(date_after.val, dates[i]))
                /\ (date_before.tag = "None" \/ DateLeq(dates[i], date_before.val))

(***************************************************************************)
(* should_include_file_by_content                                          *)
(***************************************************************************)
\* faulty variant: one satisfied filter type is enough
ShouldInclude_AnyType(md, flt) ==
    \/ /\ flt.tag_patterns = <<>> /\ flt.title_patterns = <<>> /\ flt.author_patterns = <<>>
       /\ flt.field_patterns = <<>>
       /\ flt.date_after.tag = "None" /\ flt.date_before.tag = "None"
    \/ \E i \in 1..Len(flt.tag_patterns) :
           HasTag(md, flt.tag_patterns[i][1], flt.tag_patterns[i][2])
    \/ \E i \in 1..Len(flt.title_patterns) : HasTitle(md, flt.title_patterns[i])
    \/ \E i \in 1..Len(flt.author_patterns) : HasAuthor(md, flt.author_patterns[i])
    \/ \E i \in 1..Len(flt.field_patterns) :
           HasField(md, flt.field_patterns[i][1], flt.field_patterns[i][2])
    \/ /\ (flt.date_after.tag = "Some" \/ flt.date_before.tag = "Some")
       /\ MatchesDateFilters(md, flt.date_after, flt.date_before)

ShouldIncludeFileByContent(md, flt) ==
    IF /\ flt.tag_patterns # <<>>
       /\ ~\E i \in 1..Len(flt.tag_patterns) :
              HasTag(md, flt.tag_patterns[i][1], flt.tag_patterns[i][2])
    THEN FALSE
    ELSE IF /\ flt.title_patterns # <<>>
            /\ ~\E i \in 1..Len(flt.title_patterns) : HasTitle(md, flt.title_patterns[i])
    THEN FALSE
    ELSE IF /\ flt.author_patterns # <<>>
            /\ ~\E i \in 1..Len(flt.author_patterns) : HasAuthor(md, flt.author_patterns[i])
    THEN FALSE
    ELSE IF /\ flt.field_patterns # <<>>
            /\ ~\E i \in 1..Len(flt.field_patterns) :
                   HasField(md, flt.field_patterns[i][1], flt.field_patterns[i][2])
    THEN FALSE
    ELSE IF /\ (flt.date_after.tag = "Some" \/ flt.date_before.tag = "Some")
            /\ ~MatchesDateFilters(md, flt.date_after, flt.date_before)
    THEN FALSE
    ELSE TRUE

(***************************************************************************)
(* Filename patterns: RegexBuilder::new(name).case_insensitive(ignore_case)*)
(* and matches_filename.  The patterns of the model are literals with the  *)
(* anchors ^ and $, the wildcard . and backslash escapes; a pattern with   *)
(* an unclosed group or class, or one that starts with a repetition, does  *)
(* not compile.                                                            *)
(***************************************************************************)
CountOf(s, c) == Cardinality({i \in 1..Len(s) : s[i] = c})

RegexSyntaxOk(src) ==
    /\ CountOf(src, "(") = CountOf(src, ")")
    /\ CountOf(src, "[") = CountOf(src, "]")
    /\ (src # <<>> => src[1] \notin {"*", "+", "?"})

\* the pattern between its anchors as tokens: <<"lit", c>> or <<"any">>
RECURSIVE RegexTokens(_)
RegexTokens(s) ==
    IF s = <<>> THEN <<>>
    ELSE IF s[1] = "\\" /\ Len(s) >= 2
    THEN << <<"lit", s[2]>> >> \o RegexTokens(SubSeq(s, 3, Len(s)))
    ELSE IF s[1] = "." THEN << <<"any">> >> \o RegexTokens(Tail(s))
    ELSE << <<"lit", s[1]>> >> \o RegexTokens(Tail(s))

CompileName(name, ignore_case) ==
    IF RegexSyntaxOk(name)
    THEN Ok([kind |-> "name", source |-> name, ci |-> ignore_case])
    ELSE [tag |-> "Err", kind |-> "InvalidNamePattern", value |-> name]

\* Regex::is_match on a file name
NameIsMatch(regex, filename) ==
    LET src == regex.source
        atStart == StartsWith(src, <<"^">>)
        atEnd == /\ Len(src) >= 1 /\ src[Len(src)] = "$"
                 /\ (Len(src) < 2 \/ src[Len(src) - 1] # "\\")
        toks == RegexTokens(SubSeq(src, IF atStart THEN 2 ELSE 1,
                                   IF atEnd THEN Len(src) - 1 ELSE Len(src)))
        n == Len(toks)
        Same(a, b) == IF regex.ci THEN LowerChar(a) = LowerChar(b) ELSE a = b
    IN  \E i \in 1..(Len(filename) - n + 1) :
            /\ atStart => i = 1
            /\ atEnd => i + n - 1 = Len(filename)
            /\ \A k \in 1..n : toks[k][1] = "any" \/ Same(toks[k][2], filename[i + k - 1])

(***************************************************************************)
(* CompiledFilters::from_args                                              *)
(***************************************************************************)
\* str::strip_prefix('#').unwrap_or(tag)
StripHash(tag) == IF StartsWith(tag, <<"#">>) THEN Tail(tag) ELSE tag

CompileTag(tag) == <<ToLower(StripHash(tag)), TagRegex(StripHash(tag))>>

\* faulty variant: the two sides are tested for emptiness before they are trimmed
CompileField_Untrimmed(field_spec) ==
    LET colon == Find(field_spec, ":")
        field == SubSeq(field_spec, 1, colon - 1)
        pattern == SubSeq(field_spec, colon + 1, Len(field_spec))
    IN  IF colon = 0
        THEN [tag |-> "Err", kind |-> "InvalidFieldFormat", value |-> field_spec]
        ELSE IF field = <<>> /\ pattern = <<>>
        THEN [tag |-> "Err", kind |-> "BothEmpty", value |-> field_spec]
        ELSE IF field = <<>>
        THEN [tag |-> "Err", kind |-> "FieldEmpty", value |-> field_spec]
        ELSE IF pattern = <<>>
        THEN [tag |-> "Err", kind |-> "PatternEmpty", value |-> field_spec]
        ELSE Ok(<<Trim(field), ToLower(Trim(pattern))>>)

\* one field spec: Ok(<<field, pattern>>) or the error of the first failing check
CompileField(field_spec) ==
    LET colon == Find(field_spec, ":")
        field_trimmed == Trim(SubSeq(field_spec, 1, colon - 1))
        pattern_trimmed == Trim(SubSeq(field_spec, colon + 1, Len(field_spec)))
    IN  IF colon = 0
        THEN [tag |-> "Err", kind |-> "InvalidFieldFormat", value |-> field_spec]
        ELSE IF field_trimmed = <<>> /\ pattern_trimmed = <<>>
        THEN [tag |-> "Err", kind |-> "BothEmpty", value |-> field_spec]
        ELSE IF field_trimmed = <<>>
        THEN [tag |-> "Err", kind |-> "FieldEmpty", value |-> field_spec]
        ELSE IF pattern_trimmed = <<>>
        THEN [tag |-> "Err", kind |-> "PatternEmpty", value |-> field_spec]
        ELSE Ok(<<field_trimmed, ToLower(pattern_trimmed)>>)

\* faulty variant: a bound that does not parse is dropped
CompileDate_Dropped(flag, date_str) ==
    IF date_str.tag = "None" THEN Ok(None) ELSE Ok(ParseDate(date_str.val))

\* one date bound: Ok(Option<NaiveDate>) or the invalid-date error naming the flag
CompileDate(flag, date_str) ==
    IF date_str.tag = "None" THEN Ok(None)
    ELSE IF ParseDate(date_str.val).tag = "Some" THEN Ok(ParseDate(date_str.val))
    ELSE [tag |-> "Err", kind |-> "InvalidDateFormat", flag |-> flag, value |-> date_str.val]

FromArgs(a) ==
    LET names == [i \in 1..Len(a.names) |-> CompileName(a.names[i], a.ignore_case)]
        badNames == {i \in 1..Len(names) : names[i].tag = "Err"}
        fields == [i \in 1..Len(a.fields) |-> CompileField(a.fields[i])]
        badFields == {i \in 1..Len(fields) : fields[i].tag = "Err"}
        after == CompileDate("--date-after", a.date_after)
        before == CompileDate("--date-before", a.date_before)
    IN  IF badNames # {} THEN names[Min(badNames)]
        ELSE IF badFields # {} THEN fields[Min(badFields)]
        ELSE IF after.tag = "Err" THEN after
        ELSE IF before.tag = "Err" THEN before
        ELSE Ok([tag_patterns    |-> [i \in 1..Len(a.tags) |-> CompileTag(a.tags[i])],
                 title_patterns  |-> [i \in 1..Len(a.titles) |-> ToLower(a.titles[i])],
                 author_patterns |-> [i \in 1..Len(a.authors) |-> ToLower(a.authors[i])],
                 name_patterns   |-> [i \in 1..Len(names) |-> names[i].val],
                 field_patterns  |-> [i \in 1..Len(fields) |-> fields[i].val],
                 date_after      |-> after.val,
                 date_before     |-> before.val])

(***************************************************************************)
(* Metadata::from_file and the closure of find_matching_files              *)
(***************************************************************************)
YamlWarning(p) == [msg |-> "Warning: Failed to parse YAML frontmatter", path |-> p]
ReadWarning(p) == [msg |-> "Warning: Failed to read", path |-> p]

\* faulty variant: the YAML warning is printed only when verbose is set
FromFile_VerboseWarning ==
    /\ pc = "read"
    /\ content.tag = "Ok"
    /\ LET r == ExtractFrontmatter(content.val)
       IN  /\ metadata' = Ok([frontmatter |-> r.fm, raw_content |-> content.val])
           /\ stderr' = IF r.warn /\ verbose THEN Append(stderr, YamlWarning(path))
                        ELSE stderr
    /\ pc' = "meta"
    /\ UNCHANGED <<path, file, head_lines, full_text, verbose, lines_vec, line_count,
                   in_frontmatter, frontmatter_ended, content, filters, verdict>>
    /\ UNCHANGED run_vars

\* from_file after a successful read: extract_frontmatter, then Ok(Metadata)
FromFile ==
    /\ pc = "read"
    /\ content.tag = "Ok"
    /\ LET r == ExtractFrontmatter(content.val)
       IN  /\ metadata' = Ok([frontmatter |-> r.fm, raw_content |-> content.val])
           /\ stderr' = IF r.warn THEN Append(stderr, YamlWarning(path)) ELSE stderr
    /\ pc' = "meta"
    /\ UNCHANGED <<path, file, head_lines, full_text, verbose, lines_vec, line_count,
                   in_frontmatter, frontmatter_ended, content, filters, verdict>>
    /\ UNCHANGED run_vars

\* faulty variant: the read error leaves the closure with `?` and ends the run
FromFileErr_Aborts ==
    /\ pc = "read"
    /\ content.tag = "Err"
    /\ metadata' = content
    /\ stderr' = IF verbose THEN Append(stderr, ReadWarning(path)) ELSE stderr
    /\ verdict' = FALSE
    /\ matching_files' = content
    /\ pc' = "exit"
    /\ UNCHANGED <<path, file, head_lines, full_text, verbose, lines_vec, line_count,
                   in_frontmatter, frontmatter_ended, content, filters>>
    /\ UNCHANGED <<args, compiled, files, pending, kept, result>>

\* from_file after a failed read (`?`), and the closure's Err arm: the file is dropped
FromFileErr ==
    /\ pc = "read"
    /\ content.tag = "Err"
    /\ metadata' = content
    /\ stderr' = IF verbose THEN Append(stderr, ReadWarning(path)) ELSE stderr
    /\ verdict' = FALSE
    /\ pc' = "done"
    /\ UNCHANGED <<path, file, head_lines, full_text, verbose, lines_vec, line_count,
                   in_frontmatter, frontmatter_ended, content, filters>>
    /\ UNCHANGED run_vars

(***************************************************************************)
(* The inputs of the model                                                 *)
(***************************************************************************)
DEFAULT_HEAD_LINES == 10

\* the most lines of a frontmatter block in the short files
MaxBlock == 2

\* the most filter types given together on one run
MaxTypes == 2

BLANK == <<>>
DELIM_SP == <<" ", "-", "-", "-", " ">>
L_TAGS == <<"t", "a", "g", "s", ":", " ", "g", "o">>
L_TITLE == <<"t", "i", "t", "l", "e", ":", " ", "G", "o">>
L_AUTHOR == <<"a", "u", "t", "h", "o", "r", ":", " ", "A", "l">>
L_FIELD == <<"k", "i", "n", "d", ":", " ", "G", "o">>
L_DATE == <<"d", "a", "t", "e", ":", " ", "2", "0", "2", "4", "-", "0", "1", "-", "0", "2">>
L_BAD == <<"k", ":", " ", "[">>
L_HASH == <<"#", "g", "o">>
L_HEADING == <<"#", " ", "G", "o">>

\* the subsequences of ls with at most n elements
SubSeqsUpTo(ls, n) ==
    LET picks == {S \in SUBSET (1..Len(ls)) : Cardinality(S) <= n}
        Nth(S, k) == CHOOSE i \in S : Cardinality({j \in S : j < i}) = k - 1
    IN  {[k \in 1..Cardinality(S) |-> ls[Nth(S, k)]] : S \in picks}

MkFile(head, pad, tail, nl) ==
    [head |-> head, pad |-> pad, tail |-> tail, nl |-> nl, readable |-> TRUE,
     crlf |-> FALSE]

\* a text file does not end in an empty line unless a newline follows it
WellFormed(f) ==
    /\ NumLines(f) = 0 => ~f.nl
    /\ (NumLines(f) > 0 /\ ~f.nl) => LineAt(f, NumLines(f)) # <<>>

\* files that vary the shape of the frontmatter block
ShapeFiles ==
    {MkFile(open \o block \o close \o body, 0, <<>>, TRUE) :
        open \in {<<>>, <<DELIM>>, <<DELIM_SP>>, <<BLANK, DELIM>>},
        block \in {<<>>, <<L_TAGS>>, <<L_BAD>>, <<L_TAGS, L_BAD>>, <<BLANK>>, <<L_HEADING>>},
        close \in {<<>>, <<DELIM>>},
        body \in {<<>>, <<L_HASH>>}}

\* the empty file, files without a final newline, and a file that cannot be opened
EdgeFiles ==
    {MkFile(<<>>, 0, <<>>, FALSE),
     MkFile(<<L_HASH>>, 0, <<>>, FALSE),
     MkFile(<<DELIM>>, 0, <<>>, FALSE),
     MkFile(<<DELIM, L_TAGS, DELIM>>, 0, <<>>, FALSE),
     [MkFile(<<DELIM, L_TAGS, DELIM>>, 0, <<>>, TRUE) EXCEPT !.readable = FALSE]}

\* files that vary the metadata, in a frontmatter block or inline
MetaFiles ==
    {MkFile(wrap[1] \o block \o wrap[2] \o body, 0, <<>>, TRUE) :
        wrap \in {<< <<>>, <<>> >>, << <<DELIM>>, <<DELIM>> >>},
        block \in SubSeqsUpTo(<<L_TAGS, L_TITLE, L_AUTHOR, L_FIELD, L_DATE>>, MaxBlock),
        body \in {<<>>, <<L_HASH>>, <<L_HEADING>>}}

\* an inline tag on line 15, past the default head budget
ScenarioFiles == {MkFile(<<>>, 14, <<L_HASH>>, TRUE)}

\* files saved with CRLF line endings
CrlfFiles ==
    {[MkFile(head, 0, <<>>, TRUE) EXCEPT !.crlf = TRUE] :
        head \in {<<L_HASH, FILLER>>, <<DELIM, L_TAGS, DELIM, L_HASH, FILLER>>,
                  <<DELIM, L_FIELD, DELIM, L_HEADING>>}}

\* files around the frontmatter ceiling: the closing delimiter, when there is
\* one, comes right after the filler lines
LongFiles ==
    {MkFile(head, pad, tail, TRUE) :
        head \in {<<DELIM>>, <<DELIM_SP>>, <<L_HEADING>>},
        pad \in (0..2) \cup ((MAX_FRONTMATTER_LINES - 2)..(MAX_FRONTMATTER_LINES + PadSlack)),
        tail \in {<<>>, <<L_HASH>>, <<DELIM, L_HASH, DELIM>>}}

P_A == "a.md"
P_B == "docs/b.md"

S_GO == <<"g", "o">>
S_GO_UPPER == <<"G", "o">>
S_GO_NL_X == <<"g", "o", NL, "x">>
S_HASH_RS == <<"#", "r", "s">>
S_AL == <<"a", "l">>
S_KIND_GO == <<"k", "i", "n", "d", ":", "g", "o">>
S_DAY_1 == <<"2", "0", "2", "4", "-", "0", "1", "-", "0", "1">>
S_DAY_0 == <<"2", "0", "2", "3", "-", "1", "2", "-", "3", "1">>

\* the number of filter types an Args gives
NumTypes(a) ==
    (IF a.tags # <<>> THEN 1 ELSE 0) + (IF a.titles # <<>> THEN 1 ELSE 0)
    + (IF a.authors # <<>> THEN 1 ELSE 0) + (IF a.fields # <<>> THEN 1 ELSE 0)
    + (IF a.date_after.tag = "Some" \/ a.date_before.tag = "Some" THEN 1 ELSE 0)

\* the filter arguments tried
ArgSets ==
    {a \in [tags        : {<<>>, <<S_HASH_RS, S_GO>>, <<S_HASH_RS>>, <<S_GO_NL_X>>},
            titles      : {<<>>, <<S_GO_UPPER>>},
            authors     : {<<>>, <<S_AL>>},
            names       : {<<>>},
            ignore_case : {FALSE},
            fields      : {<<>>, <<S_KIND_GO>>},
            date_after  : {None, Some(S_DAY_1)},
            date_before : {None, Some(S_DAY_0)}] :
        /\ NumTypes(a) <= MaxTypes
        /\ (a.date_after.tag = "None" \/ a.date_before.tag = "None")}

\* the CompiledFilters of the arguments that compile
CompiledSets == {FromArgs(a).val : a \in {x \in ArgSets : FromArgs(x).tag = "Ok"}}

(***************************************************************************)
(* The filter step of the closure: should_include_file_by_content.         *)
(* CompiledFilters is built once and only read, so it is drawn here, where *)
(* it is first used.                                                       *)
(***************************************************************************)
Evaluate ==
    /\ pc = "meta"
    /\ \E flt \in CompiledSets :
          /\ filters' = flt
          /\ verdict' = ShouldIncludeFileByContent(metadata.val, flt)
    /\ pc' = "done"
    /\ UNCHANGED <<path, file, head_lines, full_text, verbose, lines_vec, line_count,
                   in_frontmatter, frontmatter_ended, content, metadata, stderr>>
    /\ UNCHANGED run_vars

(***************************************************************************)
(* Specifications                                                          *)
(***************************************************************************)
InitOn(paths, inputs, budgets) ==
    /\ path \in paths
    /\ file \in inputs
    /\ \/ full_text = FALSE /\ head_lines \in budgets
       \/ full_text = TRUE /\ head_lines = DEFAULT_HEAD_LINES
    /\ verbose \in BOOLEAN
    /\ pc = "start"
    /\ lines_vec = <<>>
    /\ line_count = 0
    /\ in_frontmatter = FALSE
    /\ frontmatter_ended = FALSE
    /\ content = None
    /\ metadata = None
    /\ stderr = <<>>
    /\ filters = None
    /\ verdict = None
    /\ args = None
    /\ compiled = None
    /\ files = None
    /\ pending = {}
    /\ kept = <<>>
    /\ matching_files = None
    /\ result = None

Budgets == (0..MaxHead) \cup {DEFAULT_HEAD_LINES}

\* one candidate file through read, parse and filter; the files vary the shape
\* of the frontmatter block
Init == InitOn({P_A}, ShapeFiles \cup EdgeFiles, Budgets)

Next == ReadFull \/ OpenFile \/ ReadLine \/ ReadEof \/ FromFile \/ FromFileErr \/ Evaluate

Spec == Init /\ [][Next]_vars

\* the same steps on files that vary the metadata, with verbose off
InitFilter ==
    InitOn({P_A}, MetaFiles \cup EdgeFiles \cup ScenarioFiles \cup CrlfFiles, Budgets)
    /\ verbose = FALSE

SpecFilter == InitFilter /\ [][Next]_vars

\* read_file_content alone, on files around the frontmatter ceiling
InitLong == InitOn({P_A, P_B}, LongFiles \cup EdgeFiles, Budgets) /\ verbose = FALSE

NextRead == ReadFull \/ OpenFile \/ ReadLine \/ ReadEof

SpecLong == InitLong /\ [][NextRead]_vars

(***************************************************************************)
(* The run: enumerate_files and find_matching_files                        *)
(***************************************************************************)
\* the characters of a string
Chars(str) == [i \in 1..Len(str) |-> SubSeq(str, i, i)]

\* the bytes of the model's paths, in ascending order
ALPHABET == Chars("-./0123456789ABCDEFGHIJKLMNOPQRSTUVWXYZ_abcdefghijklmnopqrstuvwxyz")

CharRank(c) == CHOOSE i \in 1..Len(ALPHABET) : ALPHABET[i] = c

\* Ord of two byte strings
StrLeq(x, y) ==
    LET diff == {i \in 1..Min({Len(x), Len(y)}) : x[i] # y[i]}
    IN  IF diff = {} THEN Len(x) <= Len(y)
        ELSE CharRank(x[Min(diff)]) < CharRank(y[Min(diff)])

\* Ord of Path: component by component
PathLeq(x, y) ==
    LET diff == {i \in 1..Min({Len(x), Len(y)}) : x[i] # y[i]}
    IN  IF diff = {} THEN Len(x) <= Len(y)
        ELSE StrLeq(x[Min(diff)], y[Min(diff)]) 

EXCLUDED_DIRS ==
    {Chars(d) : d \in {"target", "build", "dist", "out", "bin", "obj", "node_modules",
                       "vendor", "bower_components", "__pycache__", ".cache",
                       ".parcel-cache", ".gradle", ".m2", ".next", ".nuxt", ".vitepress",
                       ".docusaurus", ".output", ".serverless", ".idea", ".vscode", ".vs",
                       ".obsidian", "tmp", "temp", "coverage", ".nyc_output",
                       ".pytest_cache", ".tox"}}

\* the directory tree the run walks: every entry below ".", with the file behind
\* each regular file; the tree holds no ignore files
Entry(p, is_file, f) ==
    [path |-> p, components |-> [i \in 1..Len(Split(Chars(p), "/")) |->
                                    Split(Chars(p), "/")[i]],
     is_file |-> is_file, file |-> f]

Disk ==
    {Entry("./docs", FALSE, None),
     Entry("./docs/b.md", TRUE, MkFile(<<DELIM, L_TAGS, L_BAD, DELIM, L_HASH>>, 0, <<>>, TRUE)),
     Entry("./a.md", TRUE, MkFile(<<DELIM, L_TAGS, L_FIELD, L_DATE, DELIM>>, 0, <<>>, TRUE)),
     Entry("./Z.md", TRUE,
           [MkFile(<<L_HASH>>, 0, <<>>, TRUE) EXCEPT !.readable = FALSE]),
     Entry("./notes.txt", TRUE, MkFile(<<L_HASH>>, 0, <<>>, TRUE)),
     Entry("./big.txt", TRUE,
           MkFile(<<DELIM, L_TAGS>>, MAX_FRONTMATTER_LINES, <<>>, TRUE)),
     Entry("./.git/c.md", TRUE, MkFile(<<L_HASH>>, 0, <<>>, TRUE)),
     Entry("./target/d.md", TRUE, MkFile(<<L_HASH>>, 0, <<>>, TRUE))}

EntryOfPath(p) == CHOOSE e \in Disk : e.path = p

\* Glob::new: a pattern with an unclosed class or alternation is invalid
GlobSyntaxOk(glob) ==
    /\ CountOf(glob, "[") = CountOf(glob, "]")
    /\ CountOf(glob, "{") = CountOf(glob, "}")

\* GlobMatcher::is_match for the patterns **/*<suffix> and *<suffix>: `*` also
\* matches the separator, so both accept every path that ends in the suffix
GlobIsMatch(glob, p) ==
    LET g1 == IF StartsWith(glob, Chars("**/")) THEN SubSeq(glob, 4, Len(glob)) ELSE glob
        suffix == IF StartsWith(g1, <<"*">>) THEN Tail(g1) ELSE g1
        chars == Chars(p)
    IN  /\ Len(chars) >= Len(suffix)
        /\ SubSeq(chars, Len(chars) - Len(suffix) + 1, Len(chars)) = suffix
        /\ (StartsWith(g1, <<"*">>) \/ Len(chars) = Len(suffix))

\* WalkBuilder::hidden(true): an entry with a dot-name below the root is skipped
Hidden(e) ==
    \E i \in 2..Len(e.components) : StartsWith(e.components[i], <<".">>)

\* the paths enumerate_files pushes, as a set
Candidates(a) ==
    {e.path : e \in {d \in Disk :
        /\ ~Hidden(d)
        /\ (a.depth.tag = "Some" => Len(d.components) - 1 <= a.depth.val)
        /\ ~\E i \in 1..Len(d.components) : d.components[i] \in EXCLUDED_DIRS
        /\ d.is_file
        /\ GlobIsMatch(a.glob, d.path)}}

\* the sequences that list the elements of S once each
Orders(S) ==
    {q \in [1..Cardinality(S) -> S] : \A x \in S : \E i \in 1..Cardinality(S) : q[i] = x}

\* faulty variant: the paths are returned in the order they were collected
SortPaths_AsCollected(q) == q

\* [PathBuf]::sort, by insertion
RECURSIVE InsertionSort(_)
InsertionSort(q) ==
    IF q = <<>> THEN <<>>
    ELSE LET rest == InsertionSort(Tail(q))
             Before(x) == /\ x # q[1]
                          /\ PathLeq(EntryOfPath(x).components, EntryOfPath(q[1]).components)
         IN  SelectSeq(rest, Before) \o <<q[1]>> \o SelectSeq(rest, LAMBDA x : ~Before(x))

SortPaths(q) == InsertionSort(q)

NoFilters(a) ==
    /\ a.tags = <<>> /\ a.titles = <<>> /\ a.authors = <<>> /\ a.names = <<>>
    /\ a.fields = <<>> /\ a.date_after = None /\ a.date_before = None

\* Path::file_name
FileName(p) == EntryOfPath(p).components[Len(EntryOfPath(p).components)]

\* faulty variant: the pattern is matched against the whole path
MatchesFilename_WholePath(p, regex) == NameIsMatch(regex, Chars(p))

MatchesFilename(p, regex) == NameIsMatch(regex, FileName(p))

file_vars == <<path, file, lines_vec, line_count, in_frontmatter, frontmatter_ended,
               content, metadata, verdict>>

\* enumerate_files(args)?: the walk order is the file system's
EnumerateFiles ==
    /\ pc = "main"
    /\ IF GlobSyntaxOk(args.glob)
       THEN /\ files' \in Orders(Candidates(args))
            /\ pc' = "enumerated"
            /\ UNCHANGED matching_files
       ELSE /\ matching_files' = [tag |-> "Err", kind |-> "InvalidGlob", value |-> args.glob]
            /\ pc' = "exit"
            /\ UNCHANGED files
    /\ UNCHANGED <<file_vars, head_lines, full_text, verbose, stderr, filters, args,
                   compiled, pending, kept, result>>

\* faulty variant: without filters only the files that can be opened are listed
ReturnAll_Readable ==
    /\ pc = "enumerated"
    /\ NoFilters(args)
    /\ matching_files' = Ok(SortPaths(SelectSeq(files, LAMBDA q : EntryOfPath(q).file.readable)))
    /\ pc' = "exit"
    /\ UNCHANGED <<file_vars, head_lines, full_text, verbose, stderr, filters, args,
                   compiled, files, pending, kept, result>>

\* no filters: all files, sorted
ReturnAll ==
    /\ pc = "enumerated"
    /\ NoFilters(args)
    /\ matching_files' = Ok(SortPaths(files))
    /\ pc' = "exit"
    /\ UNCHANGED <<file_vars, head_lines, full_text, verbose, stderr, filters, args,
                   compiled, files, pending, kept, result>>

\* CompiledFilters::from_args(args)?, then the retain on the filename patterns
CompileFilters ==
    /\ pc = "enumerated"
    /\ ~NoFilters(args)
    /\ compiled' = FromArgs(args)
    /\ IF compiled'.tag = "Ok"
       THEN /\ filters' = compiled'.val
            /\ files' = IF filters'.name_patterns = <<>> THEN files
                        ELSE SelectSeq(files, LAMBDA q :
                                 \E i \in 1..Len(filters'.name_patterns) :
                                     MatchesFilename(q, filters'.name_patterns[i]))
            /\ pending' = {files'[i] : i \in 1..Len(files')}
            /\ pc' = "filter"
            /\ UNCHANGED matching_files
       ELSE /\ matching_files' = compiled'
            /\ pc' = "exit"
            /\ UNCHANGED <<filters, files, pending>>
    /\ UNCHANGED <<file_vars, head_lines, full_text, verbose, stderr, args, kept, result>>

\* a worker takes a candidate: the closure starts on it
StartFile ==
    /\ pc = "filter"
    /\ \E q \in pending :
          /\ path' = q
          /\ file' = EntryOfPath(q).file
    /\ lines_vec' = <<>>
    /\ line_count' = 0
    /\ in_frontmatter' = FALSE
    /\ frontmatter_ended' = FALSE
    /\ content' = None
    /\ metadata' = None
    /\ verdict' = None
    /\ pc' = "start"
    /\ UNCHANGED <<head_lines, full_text, verbose, stderr, filters, run_vars>>

\* the Ok arm of the closure: should_include_file_by_content with the run's filters
FilterFile ==
    /\ pc = "meta"
    /\ verdict' = ShouldIncludeFileByContent(metadata.val, filters)
    /\ pc' = "done"
    /\ UNCHANGED <<path, file, head_lines, full_text, verbose, lines_vec, line_count,
                   in_frontmatter, frontmatter_ended, content, metadata, stderr, filters,
                   run_vars>>

\* faulty variant: the workers share the result and the last Some(path) wins
CollectFile_LastWins ==
    /\ pc = "done"
    /\ pending' = pending \ {path}
    /\ kept' = IF verdict THEN <<path>> ELSE kept
    /\ pc' = "filter"
    /\ UNCHANGED <<file_vars, head_lines, full_text, verbose, stderr, filters, args,
                   compiled, files, matching_files, result>>

\* the closure's value reaches filter_map: Some(path) is kept, None dropped
CollectFile ==
    /\ pc = "done"
    /\ pending' = pending \ {path}
    /\ kept' = IF verdict THEN Append(kept, path) ELSE kept
    /\ pc' = "filter"
    /\ UNCHANGED <<file_vars, head_lines, full_text, verbose, stderr, filters, args,
                   compiled, files, matching_files, result>>

\* collect, sort, Ok(matching_files)
ReturnMatching ==
    /\ pc = "filter"
    /\ pending = {}
    /\ matching_files' = Ok(SortPaths(kept))
    /\ pc' = "exit"
    /\ UNCHANGED <<file_vars, head_lines, full_text, verbose, stderr, filters, args,
                   compiled, files, pending, kept, result>>

\* the arguments the runs are started with: the defaults, and the defaults with
\* one or two filters given
DefaultArgs ==
    [tags |-> <<>>, titles |-> <<>>, authors |-> <<>>, names |-> <<>>,
     ignore_case |-> FALSE, fields |-> <<>>, date_after |-> None, date_before |-> None,
     glob |-> Chars("**/*.md"), depth |-> None, dirs |-> <<".">>]

TagSpecs == {Chars(t) : t \in {"go", "#GO", "#rs"}}

NameSpecs == {Chars(n) : n \in {"b", "^a", "\\.md$", "Z", "docs", "(", "[a"}}

FieldSpecs ==
    {Chars(f) : f \in {"kind:go", " kind : Go ", "kind:a:b", "kind", "", ":", "  :  ",
                       ":pattern", " :x", "field:", "kind: "}}

DateSpecs ==
    {Chars(d) : d \in {"2024-01-01", "2024-01-02", "2024-1-5", "2024/01/01", "invalid",
                       "2024-13-01", "2024-02-30", "01-02-2024", "2024-01-01x", ""}}

GlobSpecs == {Chars(g) : g \in {"**/*.md", "*.txt", "["}}

RunArgSets ==
    {DefaultArgs}
    \cup {[DefaultArgs EXCEPT !.tags = <<t>>] : t \in TagSpecs}
    \cup {[DefaultArgs EXCEPT !.titles = <<S_GO_UPPER>>, !.authors = <<S_AL>>]}
    \cup {[DefaultArgs EXCEPT !.names = <<n>>, !.ignore_case = i] :
             n \in NameSpecs, i \in BOOLEAN}
    \cup {[DefaultArgs EXCEPT !.fields = <<f>>] : f \in FieldSpecs}
    \cup {[DefaultArgs EXCEPT !.fields = <<Chars("kind:go"), f>>] : f \in FieldSpecs}
    \cup {[DefaultArgs EXCEPT !.date_after = Some(d)] : d \in DateSpecs}
    \cup {[DefaultArgs EXCEPT !.date_before = Some(d)] : d \in DateSpecs}
    \cup {[DefaultArgs EXCEPT !.date_after = Some(d), !.date_before = Some(e)] :
             d, e \in {Chars("2024-01-01"), Chars("2024/01/01"), Chars("invalid")}}
    \cup {[DefaultArgs EXCEPT !.names = <<Chars("(")>>, !.fields = <<Chars(":")>>,
                              !.date_after = Some(Chars("invalid"))]}
    \cup {[DefaultArgs EXCEPT !.fields = <<Chars("field:")>>,
                              !.date_before = Some(Chars("invalid"))]}
    \cup {[DefaultArgs EXCEPT !.glob = g, !.tags = t, !.depth = d] :
             g \in GlobSpecs, t \in {<<>>, <<Chars("go")>>}, d \in {None, Some(1)}}
    \cup {[DefaultArgs EXCEPT !.glob = Chars("["), !.fields = <<Chars(":pattern")>>]}

\* main: Args::parse() has run, find_matching_files is about to be called
InitRun ==
    /\ args \in RunArgSets
    /\ head_lines = DEFAULT_HEAD_LINES
    /\ full_text \in BOOLEAN
    /\ verbose \in BOOLEAN
    /\ pc = "main"
    /\ path = ""
    /\ file = None
    /\ lines_vec = <<>>
    /\ line_count = 0
    /\ in_frontmatter = FALSE
    /\ frontmatter_ended = FALSE
    /\ content = None
    /\ metadata = None
    /\ stderr = <<>>
    /\ filters = None
    /\ verdict = None
    /\ compiled = None
    /\ files = None
    /\ pending = {}
    /\ kept = <<>>
    /\ matching_files = None
    /\ result = None

NextRun ==
    \/ EnumerateFiles \/ ReturnAll \/ CompileFilters \/ StartFile
    \/ ReadFull \/ OpenFile \/ ReadLine \/ ReadEof \/ FromFile \/ FromFileErr
    \/ FilterFile \/ CollectFile \/ ReturnMatching

SpecRun == InitRun /\ [][NextRun]_vars

(***************************************************************************)
(* The methods of Metadata applied alone, on Metadata values built as the  *)
(* unit tests build them: a frontmatter and a raw text chosen separately   *)
(***************************************************************************)
Meta(fm, raw) == [frontmatter |-> fm, raw_content |-> Chars(raw)]

FmTags(tv) == Some([DefaultFrontmatter EXCEPT !.tags = Some(tv)])
FmTitle(t) == Some([DefaultFrontmatter EXCEPT !.title = Some(Chars(t))])
FmAuthor(n) == Some([DefaultFrontmatter EXCEPT !.author = Some(Chars(n))])
FmExtra(entries) == Some([DefaultFrontmatter EXCEPT !.extra = entries])

Single(t) == [variant |-> "Single", tag |-> Chars(t)]
Array(ts) == [variant |-> "Array", tags |-> [i \in 1..Len(ts) |-> Chars(ts[i])]]

YMapping == [kind |-> "Mapping"]
YTagged == [kind |-> "Tagged"]

TagMetas ==
    {Meta(fm, raw) :
        fm \in {None, Some(DefaultFrontmatter), FmTags(Single("Rust")),
                FmTags(Array(<<"web", "rustlang">>)), FmTags(Array(<<>>)),
                FmTags(Single(""))},
        raw \in {"", "#rust", "#RUST", "#rust-2024", "#rust123", "#rustlang", "x#rust",
                 "a #rust.", "#web\nnote #Rust!", "##rust", "_#rust", "# rust",
                 "tags: rust", "#r.st"}}

TitleMetas ==
    {Meta(fm, raw) :
        fm \in {None, Some(DefaultFrontmatter), FmTitle("Go Guide"), FmTitle("Other")},
        raw \in {"", "# Go", "###### go", "####### Go", "#Go", "  ## Go", "Go", "#", "# ",
                 "text\n### The GO way", "\t# Go", "#\tGo", "title: Go", "- # Go"}}

AuthorMetas ==
    {Meta(fm, raw) :
        fm \in {None, Some(DefaultFrontmatter), FmAuthor("Al"), FmAuthor("Bob")},
        raw \in {"", "author: Al", "Author: AL", "  AUTHOR:al", "author : Al",
                 "author: x: al", "al: author: x", "by: al", "author al", "authors: al",
                 "x\nauthor: Al", "note author: al"}}

KIND == Chars("kind")

FieldMetas ==
    {Meta(fm, raw) :
        fm \in {None, Some(DefaultFrontmatter)}
               \cup {FmExtra({<<KIND, v>>}) :
                        v \in {YString(Chars("Go")), YNumber(Chars("42")),
                               YBool(STR_TRUE), YNull, YMapping, YTagged, YSequence(<<>>),
                               YSequence(<<YString(Chars("rs")), YString(Chars("GO"))>>),
                               YSequence(<<YNull, YSequence(<<YNumber(Chars("42"))>>)>>),
                               YSequence(<<YMapping>>)}}
               \cup {FmExtra({<<Chars("Kind"), YString(Chars("Go"))>>}),
                     FmTitle("go"), FmAuthor("go"), FmTags(Single("go"))},
        raw \in {"", "kind: go", "KIND:Go", "kind : go", "kind: x: go", "kinds: go",
                 "  kind: 42"}}

YDate(d) == YString(Chars(d))

DateMetas ==
    {Meta(fm, raw) :
        fm \in {None, Some(DefaultFrontmatter),
                FmExtra({<<DATE_FIELDS[1], YDate("2024-01-02")>>}),
                FmExtra({<<DATE_FIELDS[1], YDate("2024-03-01")>>,
                         <<DATE_FIELDS[2], YDate("2024-01-02")>>,
                         <<DATE_FIELDS[3], YDate("2024-03-01")>>,
                         <<DATE_FIELDS[4], YDate("2023-12-31")>>}),
                FmExtra({<<DATE_FIELDS[1], YDate("2024-02-30")>>,
                         <<DATE_FIELDS[2], YNumber(Chars("20240102"))>>}),
                FmExtra({<<DATE_FIELDS[1], YDate("01/02/2024")>>,
                         <<DATE_FIELDS[3], YDate("2023-12-31")>>}),
                FmExtra({<<Chars("due"), YDate("2024-01-02")>>}),
                FmExtra({<<DATE_FIELDS[1], YDate("2024-1-5")>>}),
                FmExtra({<<DATE_FIELDS[1], YDate("2023-12-01")>>,
                         <<DATE_FIELDS[4], YDate("2024-02-01")>>})},
        raw \in {"", "date: 2024-01-02", "Created : 2024-03-01\nx\n  date:2023-12-31",
                 "updated: 2024-01-02\ndate: 2024-01-02\nmodified: 2023-12-31",
                 "date: soon\ncreated: 2024-13-01", "due: 2024-01-02", "date: 2024-1-5",
                 "date: 2023-12-01\nmodified: 2024-02-01"}}

\* Metadata built as test_metadata_has_field builds it: the frontmatter is
\* extracted from the text that becomes raw_content
TextMetas ==
    {[frontmatter |-> ExtractFrontmatter(Chars(t)).fm, raw_content |-> Chars(t)] :
        t \in {"---\nauthor: Go Doe\nkind: draft\n---\n# Content",
               "---\ntitle: Go\n---\nbody", "---\ntags: go\n---\n", "---\ntags: [go, rs]\n---",
               "---\n  title: Go\n---", "---\nkind: x\n---\nauthor: Go",
               "---\ntitle: [go]\n---", "title: go"}}

MetaTagPatterns == {Chars(t) : t \in {"", "rust", "RUST", "lang", "web", "rustlang"}}
MetaTagSpecs == {Chars(t) : t \in {"rust", "#rust", "RUST", "web", "##rust", "r.st", ""}}
MetaTitlePatterns == {Chars(t) : t \in {"go", "GO", "guide", " ", ""}}
MetaAuthorPatterns == {Chars(t) : t \in {"al", "AL", "bob", ""}}
MetaFieldSpecs ==
    {Chars(f) : f \in {"kind:go", "kind:42", "kind:TRUE", "Kind:go", "kind: ", "title:go",
                       "author:go", "tags:go"}}
MetaYamlPatterns == {Chars(t) : t \in {"", "go", "42", "true"}}
MetaDateBounds ==
    {None} \cup {ParseDate(Chars(d)) : d \in {"2024-01-01", "2024-01-02", "2024-01-31"}}

\* has_tag with the pair from_args compiles for a tag spec
ApplyHasTag ==
    /\ pc = "meta"
    /\ \E spec \in MetaTagSpecs :
          result' = [op |-> "has_tag", spec |-> spec,
                     pattern_lower |-> CompileTag(spec)[1], regex |-> CompileTag(spec)[2],
                     value |-> HasTag(metadata.val, CompileTag(spec)[1], CompileTag(spec)[2])]
    /\ pc' = "applied"
    /\ UNCHANGED <<file_vars, head_lines, full_text, verbose, stderr, filters, args,
                   compiled, files, pending, kept, matching_files>>

\* contains_tag on the tags of the frontmatter, as the unit tests call it
ApplyContainsTag ==
    /\ pc = "meta"
    /\ metadata.val.frontmatter.tag = "Some"
    /\ metadata.val.frontmatter.val.tags.tag = "Some"
    /\ \E t \in MetaTagPatterns :
          result' = [op |-> "contains_tag", tags |-> metadata.val.frontmatter.val.tags.val,
                     pattern |-> t,
                     value |-> ContainsTag(metadata.val.frontmatter.val.tags.val, t)]
    /\ pc' = "applied"
    /\ UNCHANGED <<file_vars, head_lines, full_text, verbose, stderr, filters, args,
                   compiled, files, pending, kept, matching_files>>

\* has_title with a title pattern as from_args lowercases it
ApplyHasTitle ==
    /\ pc = "meta"
    /\ \E t \in MetaTitlePatterns :
          result' = [op |-> "has_title", spec |-> t, pattern_lower |-> ToLower(t),
                     value |-> HasTitle(metadata.val, ToLower(t))]
    /\ pc' = "applied"
    /\ UNCHANGED <<file_vars, head_lines, full_text, verbose, stderr, filters, args,
                   compiled, files, pending, kept, matching_files>>

ApplyHasAuthor ==
    /\ pc = "meta"
    /\ \E t \in MetaAuthorPatterns :
          result' = [op |-> "has_author", spec |-> t, pattern_lower |-> ToLower(t),
                     value |-> HasAuthor(metadata.val, ToLower(t))]
    /\ pc' = "applied"
    /\ UNCHANGED <<file_vars, head_lines, full_text, verbose, stderr, filters, args,
                   compiled, files, pending, kept, matching_files>>

\* has_field with the pair from_args stores for a field spec
ApplyHasField ==
    /\ pc = "meta"
    /\ \E f \in {x \in MetaFieldSpecs : CompileField(x).tag = "Ok"} :
          result' = [op |-> "has_field", spec |-> f,
                     field_name |-> CompileField(f).val[1],
                     pattern_lower |-> CompileField(f).val[2],
                     value |-> HasField(metadata.val, CompileField(f).val[1],
                                        CompileField(f).val[2])]
    /\ pc' = "applied"
    /\ UNCHANGED <<file_vars, head_lines, full_text, verbose, stderr, filters, args,
                   compiled, files, pending, kept, matching_files>>

\* yaml_value_contains on a value of the extra map, as the unit tests call it
ApplyYamlValueContains ==
    /\ pc = "meta"
    /\ metadata.val.frontmatter.tag = "Some"
    /\ \E e \in metadata.val.frontmatter.val.extra, t \in MetaYamlPatterns :
          result' = [op |-> "yaml_value_contains", yaml |-> e[2], pattern_lower |-> t,
                     value |-> YamlValueContains(e[2], t)]
    /\ pc' = "applied"
    /\ UNCHANGED <<file_vars, head_lines, full_text, verbose, stderr, filters, args,
                   compiled, files, pending, kept, matching_files>>

ApplyExtractDates ==
    /\ pc = "meta"
    /\ result' = [op |-> "extract_dates", value |-> ExtractDates(metadata.val)]
    /\ pc' = "applied"
    /\ UNCHANGED <<file_vars, head_lines, full_text, verbose, stderr, filters, args,
                   compiled, files, pending, kept, matching_files>>

ApplyMatchesDateFilters ==
    /\ pc = "meta"
    /\ \E after, before \in MetaDateBounds :
          result' = [op |-> "matches_date_filters", date_after |-> after,
                     date_before |-> before,
                     value |-> MatchesDateFilters(metadata.val, after, before)]
    /\ pc' = "applied"
    /\ UNCHANGED <<file_vars, head_lines, full_text, verbose, stderr, filters, args,
                   compiled, files, pending, kept, matching_files>>

InitMeta ==
    /\ metadata \in {Ok(m) : m \in TagMetas \cup TitleMetas \cup AuthorMetas
                                    \cup FieldMetas \cup DateMetas \cup TextMetas}
    /\ pc = "meta"
    /\ path = P_A
    /\ file = None
    /\ head_lines = DEFAULT_HEAD_LINES
    /\ full_text = FALSE
    /\ verbose = FALSE
    /\ lines_vec = <<>>
    /\ line_count = 0
    /\ in_frontmatter = FALSE
    /\ frontmatter_ended = FALSE
    /\ content = None
    /\ stderr = <<>>
    /\ filters = None
    /\ verdict = None
    /\ args = None
    /\ compiled = None
    /\ files = None
    /\ pending = {}
    /\ kept = <<>>
    /\ matching_files = None
    /\ result = None

NextMeta ==
    \/ ApplyHasTag \/ ApplyContainsTag \/ ApplyHasTitle \/ ApplyHasAuthor \/ ApplyHasField
    \/ ApplyYamlValueContains \/ ApplyExtractDates \/ ApplyMatchesDateFilters

SpecMeta == InitMeta /\ [][NextMeta]_vars

(***************************************************************************)
(* Properties                                                              *)
(***************************************************************************)
MinOf(a, b) == IF a <= b THEN a ELSE b
MaxOf(a, b) == IF a >= b THEN a ELSE b

FirstLines(f, k) == [i \in 1..k |-> LineAt(f, i)]

\* the file opens a frontmatter block on its first line
HasFrontmatterStart(f) == NumLines(f) > 0 /\ Trim(LineAt(f, 1)) = DELIM

\* the line of the first closing delimiter, 0 when the block is never closed
ClosingLine(f) ==
    LET c == {i \in 2..NumLines(f) : Trim(LineAt(f, i)) = DELIM}
    IN  IF c = {} THEN 0 ELSE Min(c)

\* after j lines the reader is inside an open frontmatter block that opened on
\* line 1 and closes on line c (0: never)
OpenAt(opened, c, j) == opened /\ (c = 0 \/ j < c)

\* the line count at which a bounded read with budget n ends: the smallest
\* count >= max(n, 1) outside an open block, or the length of the file
ExpectedCount(f, n) ==
    LET opened == HasFrontmatterStart(f)
        c == ClosingLine(f)
        stops == {j \in MaxOf(n, 1)..NumLines(f) : ~OpenAt(opened, c, j)}
    IN  IF stops = {} THEN NumLines(f) ELSE Min(stops)

\* the first line of a text, up to its first newline
FirstLineOf(text) ==
    IF Find(text, NL) = 0 THEN text ELSE SubSeq(text, 1, Find(text, NL) - 1)

\* the text starts a frontmatter block
StartsBlock(text) == text # <<>> /\ Trim(FirstLineOf(text)) = DELIM

\* the lines of the text's frontmatter block: after the opening delimiter, up
\* to the next delimiter or the end
BlockOf(text) ==
    LET ls == Lines(text)
        closing == {i \in 2..Len(ls) : Trim(ls[i]) = DELIM}
    IN  SubSeq(ls, 2, IF closing = {} THEN Len(ls) ELSE Min(closing) - 1)

Unterminated(text) ==
    LET ls == Lines(text)
    IN  \A i \in 2..Len(ls) : Trim(ls[i]) # DELIM

\* the text has a non-empty frontmatter block that does not deserialize
Malformed(text) ==
    /\ StartsBlock(text)
    /\ LET block == BlockOf(text)
       IN  block # <<>> /\ FromYaml(block).tag = "Err"

\* a filter type is present
TagsGiven(flt) == flt.tag_patterns # <<>>
TitlesGiven(flt) == flt.title_patterns # <<>>
AuthorsGiven(flt) == flt.author_patterns # <<>>
FieldsGiven(flt) == flt.field_patterns # <<>>
DatesGiven(flt) == flt.date_after.tag = "Some" \/ flt.date_before.tag = "Some"

\* the filters evaluated on the inline conventions of a text alone
InlineVerdict(text, flt) ==
    /\ TagsGiven(flt) =>
           \E i \in 1..Len(flt.tag_patterns) : RegexIsMatch(flt.tag_patterns[i][2], text)
    /\ TitlesGiven(flt) =>
           \E i \in 1..Len(flt.title_patterns) : HeadingContains(text, flt.title_patterns[i])
    /\ AuthorsGiven(flt) =>
           \E i \in 1..Len(flt.author_patterns) :
               InlineKeyValue(text, KEY_AUTHOR, flt.author_patterns[i])
    /\ FieldsGiven(flt) =>
           \E i \in 1..Len(flt.field_patterns) :
               InlineKeyValue(text, flt.field_patterns[i][1], flt.field_patterns[i][2])
    /\ DatesGiven(flt) =>
           \E k \in 1..Len(InlineDates(text)) :
               /\ (flt.date_after.tag = "None"
                      \/ DateLeq(flt.date_after.val, InlineDates(text)[k]))
               /\ (flt.date_before.tag = "None"
                      \/ DateLeq(InlineDates(text)[k], flt.date_before.val))

Parsed == pc = "meta" /\ metadata.tag = "Ok"
Filtered == pc = "done" /\ metadata.tag = "Ok"
BoundedRead == pc = "read" /\ ~full_text /\ file.readable

\* C1: the verdict of should_include_file_by_content is true exactly when every
\* filter type that is present has at least one of its patterns matched (OR
\* within a type, AND across types); an absent type constrains nothing.
C1_AndAcrossOrWithin ==
    Filtered =>
        LET md == metadata.val
        IN  verdict =
              (/\ TagsGiven(filters) =>
                      \E i \in 1..Len(filters.tag_patterns) :
                          HasTag(md, filters.tag_patterns[i][1], filters.tag_patterns[i][2])
               /\ TitlesGiven(filters) =>
                      \E i \in 1..Len(filters.title_patterns) :
                          HasTitle(md, filters.title_patterns[i])
               /\ AuthorsGiven(filters) =>
                      \E i \in 1..Len(filters.author_patterns) :
                          HasAuthor(md, filters.author_patterns[i])
               /\ FieldsGiven(filters) =>
                      \E i \in 1..Len(filters.field_patterns) :
                          HasField(md, filters.field_patterns[i][1],
                                   filters.field_patterns[i][2])
               /\ DatesGiven(filters) =>
                      MatchesDateFilters(md, filters.date_after, filters.date_before))

\* two types are given, the tag type is satisfied by its second pattern only,
\* and the file is included
C1_Witness ==
    /\ Filtered
    /\ verdict = TRUE
    /\ Len(filters.tag_patterns) = 2
    /\ ~HasTag(metadata.val, filters.tag_patterns[1][1], filters.tag_patterns[1][2])
    /\ HasTag(metadata.val, filters.tag_patterns[2][1], filters.tag_patterns[2][2])
    /\ TitlesGiven(filters)

\* C2: a bounded read of a file whose frontmatter opens on line 1 and closes on
\* line c <= MAX_FRONTMATTER_LINES + 1 returns, for any budget below c, a text
\* whose lines 1..c are the file's: the block is whole, closing delimiter included.
C2_BlockNeverCut ==
    (/\ BoundedRead
     /\ HasFrontmatterStart(file)
     /\ ClosingLine(file) \in 2..(MAX_FRONTMATTER_LINES + 1)
     /\ head_lines < ClosingLine(file))
    => /\ content.tag = "Ok"
       /\ LET ls == Lines(content.val)
          IN  /\ Len(ls) >= ClosingLine(file)
              /\ \A i \in 1..ClosingLine(file) : ls[i] = LineAt(file, i)

\* a block closed on line MAX_FRONTMATTER_LINES + 1 has been read whole
C2_Witness ==
    /\ BoundedRead
    /\ HasFrontmatterStart(file)
    /\ ClosingLine(file) = MAX_FRONTMATTER_LINES + 1
    /\ head_lines < ClosingLine(file)
    /\ content.tag = "Ok"
    /\ line_count = MAX_FRONTMATTER_LINES + 1

\* C3, as stated: a bounded read that returns text returns exactly the first k
\* lines, k the smallest count >= max(N, 1) at which the reader is outside an
\* open block, or all lines if the file ends first; a file without frontmatter
\* yields min(length, N) lines for N >= 1 and exactly one line for N = 0.
C3_AsStated ==
    (BoundedRead /\ content.tag = "Ok") =>
        /\ content.val = Join(FirstLines(file, ExpectedCount(file, head_lines)))
        /\ ~HasFrontmatterStart(file) =>
              IF head_lines >= 1
              THEN lines_vec = FirstLines(file, MinOf(NumLines(file), head_lines))
              ELSE Len(lines_vec) = 1

\* C3, amended: a bounded read that returns text returns exactly the first k
\* lines (k as above, or all lines if the file ends first); a file without
\* frontmatter yields min(length, N) lines for N >= 1 and min(length, 1) lines
\* for N = 0, which is no line for an empty file.
C3_FirstLines ==
    (BoundedRead /\ content.tag = "Ok") =>
        /\ content.val = Join(FirstLines(file, ExpectedCount(file, head_lines)))
        /\ lines_vec = FirstLines(file, ExpectedCount(file, head_lines))
        /\ ~HasFrontmatterStart(file) =>
              lines_vec = FirstLines(file, MinOf(NumLines(file), MaxOf(head_lines, 1)))

\* a block closed past the budget, and a second delimiter pair after it, left unread
C3_Witness ==
    /\ BoundedRead
    /\ content.tag = "Ok"
    /\ HasFrontmatterStart(file)
    /\ ClosingLine(file) > MaxOf(head_lines, 1)
    /\ line_count = ClosingLine(file)
    /\ NumLines(file) > ClosingLine(file)

\* C4: a bounded read fails with the frontmatter-too-large error, naming the
\* path, exactly when the first line is a delimiter, the file has more than
\* MAX_FRONTMATTER_LINES lines and none of lines 2..MAX_FRONTMATTER_LINES + 1 is a
\* delimiter; in every other case it returns text.
C4_TooLargeExactly ==
    BoundedRead =>
        LET oversized ==
                /\ HasFrontmatterStart(file)
                /\ NumLines(file) >= MAX_FRONTMATTER_LINES + 1
                /\ \A i \in 2..(MAX_FRONTMATTER_LINES + 1) : Trim(LineAt(file, i)) # DELIM
        IN  IF oversized
            THEN content = Err("FrontmatterTooLarge", path)
            ELSE content.tag = "Ok"

\* the error on a file of exactly MAX_FRONTMATTER_LINES + 1 lines
C4_Witness ==
    /\ BoundedRead
    /\ content = Err("FrontmatterTooLarge", path)
    /\ NumLines(file) = MAX_FRONTMATTER_LINES + 1
    /\ line_count = MAX_FRONTMATTER_LINES + 1

\* C5: for a file without frontmatter and a budget N >= 1, the verdict with
\* full-text off is the filters' verdict on the first N lines alone, and with
\* full-text on it is their verdict on the whole file; so when a tag filter is
\* matched only past line N the file is excluded in bounded mode and included
\* in full-text mode.
C5_BoundedSeesHeadOnly ==
    (Filtered /\ ~HasFrontmatterStart(file) /\ head_lines >= 1) =>
        LET head == Join(FirstLines(file, MinOf(NumLines(file), head_lines)))
            whole == FileText(file)
            tagOnly == /\ TagsGiven(filters) /\ ~TitlesGiven(filters)
                       /\ ~AuthorsGiven(filters) /\ ~FieldsGiven(filters)
                       /\ ~DatesGiven(filters)
            TagIn(text) == \E i \in 1..Len(filters.tag_patterns) :
                               RegexIsMatch(filters.tag_patterns[i][2], text)
        IN  /\ verdict = InlineVerdict(IF full_text THEN whole ELSE head, filters)
            /\ (tagOnly /\ TagIn(whole) /\ ~TagIn(head)) => (verdict = full_text)

\* the inline tag on line 15, the default budget of 10, full-text off: excluded
C5_Witness ==
    /\ Filtered
    /\ ~full_text
    /\ head_lines = DEFAULT_HEAD_LINES
    /\ file \in ScenarioFiles
    /\ TagsGiven(filters) /\ ~TitlesGiven(filters) /\ ~AuthorsGiven(filters)
    /\ ~FieldsGiven(filters) /\ ~DatesGiven(filters)
    /\ \E i \in 1..Len(filters.tag_patterns) :
           RegexIsMatch(filters.tag_patterns[i][2], FileText(file))
    /\ verdict = FALSE

\* C6: extract_frontmatter returns None whenever the text is empty or its first
\* line does not trim to the delimiter, blank lines before a delimiter included.
C6_NoneUnlessFirstLineDelimiter ==
    (Parsed /\ ~StartsBlock(metadata.val.raw_content)) =>
        metadata.val.frontmatter = None

\* a well-formed block behind a blank first line is not frontmatter
C6_Witness ==
    /\ Parsed
    /\ LET ls == Lines(metadata.val.raw_content)
       IN  /\ Len(ls) >= 4
           /\ ls[1] = BLANK
           /\ ls[2] = DELIM
           /\ ls[3] = L_TAGS
           /\ ls[4] = DELIM
    /\ metadata.val.frontmatter = None

C8_EmptyBlockIsNone ==
    (Parsed /\ StartsBlock(metadata.val.raw_content)) =>
        LET ls == Lines(metadata.val.raw_content)
        IN  (Len(ls) = 1 \/ Trim(ls[2]) = DELIM) => metadata.val.frontmatter = None

\* an opening delimiter directly followed by the closing one, then a body line
C8_Witness ==
    /\ Parsed
    /\ LET ls == Lines(metadata.val.raw_content)
       IN  Len(ls) >= 3 /\ ls[1] = DELIM /\ ls[2] = DELIM /\ ls[3] = L_HASH
    /\ metadata.val.frontmatter = None

\* C9: once a text with a block that does not deserialize has been read,
\* from_file succeeds with no frontmatter, and the verdict is the filters'
\* verdict on the inline conventions of the raw text.
C9_MalformedBlockDegrades ==
    (pc \in {"meta", "done"} /\ content.tag = "Ok" /\ Malformed(content.val)) =>
        /\ metadata = Ok([frontmatter |-> None, raw_content |-> content.val])
        /\ pc = "done" => verdict = InlineVerdict(content.val, filters)

\* a file with a malformed block is included through an inline tag
C9_Witness ==
    /\ pc = "done"
    /\ content.tag = "Ok"
    /\ Malformed(content.val)
    /\ TagsGiven(filters)
    /\ verdict = TRUE

\* C10, as stated: with verbose off no warning is written for a malformed block.
C10_AsStated ==
    ~verbose => \A i \in 1..Len(stderr) : stderr[i] # YamlWarning(path)

\* C10, amended: the YAML warning, naming the path, is written exactly when the
\* block does not deserialize, whether verbose is on or off.
C10_WarningAlways ==
    (pc = "meta" /\ content.tag = "Ok") =>
        stderr = IF Malformed(content.val) THEN <<YamlWarning(path)>> ELSE <<>>

\* the warning written on a run without verbose
C10_Witness ==
    /\ pc = "meta"
    /\ ~verbose
    /\ content.tag = "Ok"
    /\ Malformed(content.val)
    /\ stderr = <<YamlWarning(path)>>

\* the run ended in the error of CompiledFilters::from_args
FatalFilterError == pc = "exit" /\ compiled.tag = "Err" /\ matching_files = compiled

\* C11: a run given an invalid filter spec ends with the configuration error
\* without having traversed a directory or read a file.
C11_AsStated ==
    FatalFilterError => (files = None /\ content = None /\ metadata = None)

\* a method of Metadata has been applied
Applied(op) == pc = "applied" /\ result.op = op

\* the tag strings of the frontmatter: none without frontmatter or without tags
TagStrings(md) ==
    IF md.frontmatter = None \/ md.frontmatter.val.tags = None THEN <<>>
    ELSE IF md.frontmatter.val.tags.val.variant = "Single"
    THEN <<md.frontmatter.val.tags.val.tag>>
    ELSE md.frontmatter.val.tags.val.tags

\* a tag spec without its one optional leading '#'
Unhashed(spec) ==
    IF spec # <<>> /\ spec[1] = "#" THEN SubSeq(spec, 2, Len(spec)) ELSE spec

\* C12: has_tag is true iff a frontmatter tag contains the pattern as a
\* case-insensitive substring or the compiled regex matches the raw text; with
\* no frontmatter, or none with tags, it is the regex match alone.
C12_HasTag ==
    Applied("has_tag") =>
        LET md == metadata.val
            tags == TagStrings(md)
            inYaml == \E i \in 1..Len(tags) :
                          Contains(ToLower(tags[i]), ToLower(Unhashed(result.spec)))
            inline == RegexIsMatch(result.regex, md.raw_content)
        IN  /\ result.value = (inYaml \/ inline)
            /\ (md.frontmatter = None \/ md.frontmatter.val.tags = None) =>
                   result.value = inline

\* frontmatter tags that do not hold the pattern, an inline tag that does
C12_Witness ==
    /\ Applied("has_tag")
    /\ metadata.val.frontmatter = FmTags(Array(<<>>))
    /\ metadata.val.raw_content = Chars("a #rust.")
    /\ result.spec = Chars("rust")
    /\ result.value = TRUE

\* the text holds '#' and the pattern, ignoring case, between a start or a
\* non-word character and an end or a non-word character
TagTokenIn(text, p) ==
    \E i \in 1..Len(text) :
        /\ text[i] = "#"
        /\ i + Len(p) <= Len(text)
        /\ \A k \in 1..Len(p) : LowerChar(text[i + k]) = LowerChar(p[k])
        /\ (i = 1 \/ ~IsWordChar(text[i - 1]))
        /\ (i + Len(p) = Len(text) \/ ~IsWordChar(text[i + Len(p) + 1]))

\* C13: from_args strips one leading '#' from a tag spec and compiles a matcher
\* that accepts a text iff it holds '#' and the literal pattern, ignoring case,
\* bounded by non-word characters or the ends of the text: #rust, #RUST and
\* #rust-2024 match the pattern rust, #rust123 and #rustlang do not.
C13_TagMatcher ==
    (Applied("has_tag") /\ TagStrings(metadata.val) = <<>>) =>
        LET text == metadata.val.raw_content
            p == Unhashed(result.spec)
        IN  /\ result.pattern_lower = ToLower(p)
            /\ result.value = TagTokenIn(text, p)
            /\ (ToLower(p) = Chars("rust")
                  /\ text \in {Chars("#rust"), Chars("#RUST"), Chars("#rust-2024")})
               => result.value = TRUE
            /\ (ToLower(p) \in {Chars("rust"), Chars("r.st")}
                  /\ text \in {Chars("#rust123"), Chars("#rustlang")})
               => result.value = FALSE
            /\ (p = Chars("r.st") /\ text = Chars("#rust")) => result.value = FALSE

\* the spec #rust on the text #rust-2024
C13_Witness ==
    /\ Applied("has_tag")
    /\ metadata.val.frontmatter = None
    /\ metadata.val.raw_content = Chars("#rust-2024")
    /\ result.spec = Chars("#rust")
    /\ result.pattern_lower = Chars("rust")
    /\ result.value = TRUE

\* the text holds p at some position, letter case ignored
HoldsNoCase(text, p) ==
    \E i \in 0..(Len(text) - Len(p)) :
        \A k \in 1..Len(p) : LowerChar(text[i + k]) = LowerChar(p[k])

\* the line is, after its leading whitespace, 1 to 6 hashes and a space, and
\* the text after the hashes holds p
HeadingLineHolds(line, p) ==
    \E w \in 0..Len(line), h \in 1..MAX_HEADING_LEVEL :
        /\ w + h + 1 <= Len(line)
        /\ \A k \in 1..w : IsWhitespace(line[k])
        /\ \A k \in (w + 1)..(w + h) : line[k] = "#"
        /\ line[w + h + 1] = " "
        /\ HoldsNoCase(SubSeq(line, w + h + 1, Len(line)), p)

\* C14: has_title is true iff the frontmatter title contains the pattern,
\* ignoring case, or some line is, after its leading whitespace, 1 to 6 hashes
\* followed at once by a space with the pattern in the text after the hashes;
\* 7 hashes or a missing space never match, and the level does not matter.
C14_HasTitle ==
    Applied("has_title") =>
        LET md == metadata.val
            p == result.spec
            ls == Lines(md.raw_content)
            inYaml == /\ md.frontmatter # None
                      /\ md.frontmatter.val.title # None
                      /\ HoldsNoCase(md.frontmatter.val.title.val, p)
            inHeading == \E i \in 1..Len(ls) : HeadingLineHolds(ls[i], p)
        IN  /\ result.value = (inYaml \/ inHeading)
            /\ (~inYaml /\ md.raw_content \in {Chars("####### Go"), Chars("#Go"),
                                              Chars("#\tGo"), Chars("#")})
               => result.value = FALSE
            /\ (ToLower(p) = Chars("go")
                  /\ md.raw_content \in {Chars("# Go"), Chars("###### go"),
                                         Chars("  ## Go"), Chars("text\n### The GO way")})
               => result.value = TRUE

\* an indented level-2 heading under a frontmatter title without the pattern
C14_Witness ==
    /\ Applied("has_title")
    /\ metadata.val.frontmatter = FmTitle("Other")
    /\ metadata.val.raw_content = Chars("  ## Go")
    /\ result.spec = Chars("GO")
    /\ result.value = TRUE

\* the line's text before its first ':', leading whitespace stripped, is the
\* key ignoring case, and the text after that colon holds p
KeyLineHolds(line, key, p) ==
    \E w \in 0..Len(line), c \in 1..Len(line) :
        /\ \A k \in 1..w : IsWhitespace(line[k])
        /\ w < Len(line) => ~IsWhitespace(line[w + 1])
        /\ c > w
        /\ line[c] = ":"
        /\ \A k \in (w + 1)..(c - 1) : line[k] # ":"
        /\ c - 1 - w = Len(key)
        /\ \A k \in 1..Len(key) : LowerChar(line[w + k]) = LowerChar(key[k])
        /\ HoldsNoCase(SubSeq(line, c + 1, Len(line)), p)

\* C15: has_author is true iff the frontmatter author contains the pattern,
\* ignoring case, or some line has the text before its first ':' equal to
\* author ignoring case and the text after it containing the pattern; later
\* colons belong to the value, and a frontmatter author that does not match
\* does not hide an inline author line.
C15_HasAuthor ==
    Applied("has_author") =>
        LET md == metadata.val
            p == result.spec
            ls == Lines(md.raw_content)
            inYaml == /\ md.frontmatter # None
                      /\ md.frontmatter.val.author # None
                      /\ HoldsNoCase(md.frontmatter.val.author.val, p)
            inline == \E i \in 1..Len(ls) : KeyLineHolds(ls[i], KEY_AUTHOR, p)
        IN  /\ result.value = (inYaml \/ inline)
            /\ (ToLower(p) = Chars("al") /\ md.raw_content = Chars("author: x: al"))
               => result.value = TRUE
            /\ (ToLower(p) = Chars("al") /\ md.frontmatter = FmAuthor("Bob")
                  /\ md.raw_content = Chars("author: Al"))
               => result.value = TRUE
            /\ (ToLower(p) = Chars("al") /\ ~inYaml
                  /\ md.raw_content = Chars("al: author: x"))
               => result.value = FALSE

\* an inline author line under a frontmatter author that does not match
C15_Witness ==
    /\ Applied("has_author")
    /\ metadata.val.frontmatter = FmAuthor("Bob")
    /\ metadata.val.raw_content = Chars("author: Al")
    /\ result.spec = Chars("al")
    /\ result.value = TRUE

\* the string forms of the scalars a YAML value holds, itself or through
\* sequences of any depth
RECURSIVE ScalarForms(_)
ScalarForms(v) ==
    IF v.kind \in {"String", "Number", "Bool"} THEN {v.s}
    ELSE IF v.kind = "Sequence"
    THEN UNION {ScalarForms(v.items[i]) : i \in 1..Len(v.items)}
    ELSE {}

\* C16: has_field is true iff the extra map has the key with a value that
\* contains the pattern (a scalar by its string form ignoring case, a sequence
\* through some element at any depth; null, mapping and tagged values and the
\* empty sequence never, not even for the empty pattern), or some line has the
\* key before its first ':' ignoring case and the pattern after it.
C16_HasField ==
    /\ Applied("has_field") =>
           LET md == metadata.val
               p == result.pattern_lower
               ls == Lines(md.raw_content)
               inYaml == /\ md.frontmatter # None
                         /\ \E e \in md.frontmatter.val.extra :
                                /\ e[1] = result.field_name
                                /\ \E sc \in ScalarForms(e[2]) : HoldsNoCase(sc, p)
               inline == \E i \in 1..Len(ls) : KeyLineHolds(ls[i], result.field_name, p)
           IN  result.value = (inYaml \/ inline)
    /\ Applied("yaml_value_contains") =>
           /\ result.value = \E sc \in ScalarForms(result.yaml) :
                                 HoldsNoCase(sc, result.pattern_lower)
           /\ result.yaml.kind \in {"Null", "Mapping", "Tagged"} => result.value = FALSE
           /\ result.yaml = YSequence(<<>>) => result.value = FALSE

\* the pattern found in a sequence inside a sequence of the extra map
C16_Witness ==
    /\ Applied("has_field")
    /\ metadata.val.frontmatter =
           FmExtra({<<KIND, YSequence(<<YNull, YSequence(<<YNumber(Chars("42"))>>)>>)>>})
    /\ metadata.val.raw_content = <<>>
    /\ result.field_name = KIND
    /\ result.pattern_lower = Chars("42")
    /\ result.value = TRUE

\* the texts extract_dates hands to the date parser: the string values of the
\* four date keys of the frontmatter if there is one, else the trimmed values of
\* the lines whose trimmed key is one of them
DateTexts(md) ==
    LET names == {DATE_FIELDS[k] : k \in 1..Len(DATE_FIELDS)}
        ls == Lines(md.raw_content)
        KeyOf(l) == Trim(SubSeq(l, 1, Find(l, ":") - 1))
        ValueOf(l) == Trim(SubSeq(l, Find(l, ":") + 1, Len(l)))
    IN  IF md.frontmatter # None
        THEN {e[2].s : e \in {x \in md.frontmatter.val.extra :
                                  x[1] \in names /\ x[2].kind = "String"}}
        ELSE {ValueOf(ls[i]) : i \in {k \in 1..Len(ls) :
                                  /\ Find(ls[k], ":") > 0
                                  /\ ToLower(KeyOf(ls[k])) \in names}}

\* four digits, two digits, two digits, joined by '-'
IsPaddedForm(str) ==
    /\ Len(str) = 10
    /\ \A i \in 1..10 : IF i \in {5, 8} THEN str[i] = "-" ELSE IsDigit(str[i])

\* the list is in strictly increasing order: sorted, no date twice
StrictlyIncreasing(ds) ==
    \A i \in 1..(Len(ds) - 1) : DateLeq(ds[i], ds[i + 1]) /\ ds[i] # ds[i + 1]

\* C17 as stated: extract_dates returns exactly the dates of the texts in the
\* form YYYY-MM-DD.
C17_AsStated ==
    Applied("extract_dates") =>
        {result.value[i] : i \in 1..Len(result.value)}
            = {ParseDate(t).val : t \in {x \in DateTexts(metadata.val) :
                                            IsPaddedForm(x) /\ ParseDate(x) # None}}

\* C17: extract_dates returns the sorted, duplicate-free list of the dates the
\* %Y-%m-%d parser accepts, zero padding not required: from the frontmatter keys
\* date, created, updated, modified when there is frontmatter, from the inline
\* lines with those keys only when there is none; other values are skipped, and
\* frontmatter without a date that parses gives the empty list whatever the body.
C17_ExtractDates ==
    Applied("extract_dates") =>
        LET md == metadata.val
            parsed == {ParseDate(t) : t \in DateTexts(md)} \ {None}
        IN  /\ StrictlyIncreasing(result.value)
            /\ {result.value[i] : i \in 1..Len(result.value)} = {o.val : o \in parsed}
            /\ (md.frontmatter # None
                  /\ \A e \in md.frontmatter.val.extra :
                         ParseDateFromYamlValue(e[2]) = None)
               => result.value = <<>>

\* four frontmatter dates, two of them equal and out of order, over a body with
\* an inline date of its own
C17_Witness ==
    /\ Applied("extract_dates")
    /\ metadata.val.frontmatter # None
    /\ Cardinality(metadata.val.frontmatter.val.extra) = 4
    /\ metadata.val.raw_content = Chars("date: 2023-12-01\nmodified: 2024-02-01")
    /\ result.value = << <<2023, 12, 31>>, <<2024, 1, 2>>, <<2024, 3, 1>> >>

\* a date as one number that grows with the calendar
DayNumber(d) == d[1] * 10000 + d[2] * 100 + d[3]

\* C18: matches_date_filters is false when extract_dates() is empty, whatever
\* the bounds, and else true iff one extracted date is on or after the lower
\* bound, if given, and on or before the upper bound, if given; dates on either
\* side of the range only do not match.
C18_MatchesDateFilters ==
    Applied("matches_date_filters") =>
        LET dates == ExtractDates(metadata.val)
            InRange(d) ==
                /\ result.date_after = None
                     \/ DayNumber(d) >= DayNumber(result.date_after.val)
                /\ result.date_before = None
                     \/ DayNumber(d) <= DayNumber(result.date_before.val)
        IN  /\ dates = <<>> => result.value = FALSE
            /\ result.value = \E i \in 1..Len(dates) : InRange(dates[i])

\* one date before the range and one after it, none inside
C18_Witness ==
    /\ Applied("matches_date_filters")
    /\ ExtractDates(metadata.val) = << <<2023, 12, 1>>, <<2024, 2, 1>> >>
    /\ result.date_after = Some(<<2024, 1, 1>>)
    /\ result.date_before = Some(<<2024, 1, 31>>)
    /\ result.value = FALSE

\* CompiledFilters::from_args has returned
Compiled == compiled # None

\* every character of s from lo to hi is whitespace
Blank(s, lo, hi) == \A k \in lo..hi : IsWhitespace(s[k])

\* the position of the first ':' of the spec, 0 if it has none
FirstColon(spec) ==
    IF \A k \in 1..Len(spec) : spec[k] # ":" THEN 0
    ELSE CHOOSE c \in 1..Len(spec) :
             spec[c] = ":" /\ \A k \in 1..(c - 1) : spec[k] # ":"

\* the error a field spec must be rejected with, "None" if it must be accepted
FieldFault(spec) ==
    LET c == FirstColon(spec)
    IN  IF c = 0 THEN "InvalidFieldFormat"
        ELSE IF Blank(spec, 1, c - 1) /\ Blank(spec, c + 1, Len(spec)) THEN "BothEmpty"
        ELSE IF Blank(spec, 1, c - 1) THEN "FieldEmpty"
        ELSE IF Blank(spec, c + 1, Len(spec)) THEN "PatternEmpty"
        ELSE "None"

\* t is s without its leading and trailing whitespace
IsTrimOf(t, s) ==
    /\ t # <<>> => ~IsWhitespace(t[1]) /\ ~IsWhitespace(t[Len(t)])
    /\ \E i \in 0..Len(s) :
          /\ i + Len(t) <= Len(s)
          /\ SubSeq(s, i + 1, i + Len(t)) = t
          /\ Blank(s, 1, i)
          /\ Blank(s, i + Len(t) + 1, Len(s))

\* C19: from_args rejects every field spec without ':' or with a side of the
\* first ':' that trims to empty, the error telling both-empty, field-empty and
\* pattern-empty apart; any other spec is stored as the trimmed field name and
\* the trimmed, lowercased pattern, split at the first colon only.
C19_FieldSpecs ==
    Compiled =>
        LET fs == args.fields
            faulty == {i \in 1..Len(fs) : FieldFault(fs[i]) # "None"}
        IN  /\ faulty # {} => compiled.tag = "Err" /\ filters = None
            /\ (faulty # {} /\ args.names = <<>>) =>
                   /\ compiled.kind = FieldFault(fs[Min(faulty)])
                   /\ compiled.value = fs[Min(faulty)]
            /\ (faulty = {} /\ compiled.tag = "Ok") =>
                   /\ Len(compiled.val.field_patterns) = Len(fs)
                   /\ \A i \in 1..Len(fs) :
                          LET c == FirstColon(fs[i])
                              stored == compiled.val.field_patterns[i]
                          IN  /\ IsTrimOf(stored[1], SubSeq(fs[i], 1, c - 1))
                              /\ \E t \in {SubSeq(fs[i], lo, hi) :
                                              lo \in (c + 1)..(Len(fs[i]) + 1),
                                              hi \in c..Len(fs[i])} :
                                     /\ IsTrimOf(t, SubSeq(fs[i], c + 1, Len(fs[i])))
                                     /\ stored[2] = ToLower(t)
            /\ (fs = <<Chars("kind:a:b")>> /\ args.names = <<>>) =>
                   /\ compiled.tag = "Ok"
                   /\ compiled.val.field_patterns = << <<KIND, Chars("a:b")>> >>

\* a valid field spec followed by one whose field name trims to empty
C19_Witness ==
    /\ pc = "exit"
    /\ args.fields = <<Chars("kind:go"), Chars(" :x")>>
    /\ compiled = [tag |-> "Err", kind |-> "FieldEmpty", value |-> Chars(" :x")]
    /\ matching_files = compiled

\* the date bounds given on the command line
GivenBounds == {b \in {args.date_after, args.date_before} : b # None}

\* C20 as stated: a date bound in any form but YYYY-MM-DD makes from_args fail.
C20_AsStated ==
    (Compiled /\ \E b \in GivenBounds : ~IsPaddedForm(b.val)) => compiled.tag = "Err"

\* C20: from_args hands each given date bound to the %Y-%m-%d parser, which
\* does not require zero padding; a value the parser rejects makes from_args
\* fail with the invalid-date-format error that names the flag and the value,
\* and no CompiledFilters is produced.
C20_DateBounds ==
    (Compiled /\ args.names = <<>> /\ args.fields = <<>>) =>
        LET Rejected(b) == b # None /\ ParseDate(b.val) = None
            Parsed_(b) == IF b = None THEN None ELSE ParseDate(b.val)
            Unparsable == {Chars(d) : d \in {"2024/01/01", "invalid", "2024-13-01",
                                             "2024-02-30", "01-02-2024", "2024-01-01x", ""}}
        IN  /\ Rejected(args.date_after) =>
                   /\ compiled = [tag |-> "Err", kind |-> "InvalidDateFormat",
                                  flag |-> "--date-after", value |-> args.date_after.val]
                   /\ filters = None
            /\ (~Rejected(args.date_after) /\ Rejected(args.date_before)) =>
                   /\ compiled = [tag |-> "Err", kind |-> "InvalidDateFormat",
                                  flag |-> "--date-before", value |-> args.date_before.val]
                   /\ filters = None
            /\ (~Rejected(args.date_after) /\ ~Rejected(args.date_before)) =>
                   /\ compiled.tag = "Ok"
                   /\ compiled.val.date_after = Parsed_(args.date_after)
                   /\ compiled.val.date_before = Parsed_(args.date_before)
            /\ (\E b \in GivenBounds : b.val \in Unparsable) => compiled.tag = "Err"
            /\ args.date_after = Some(Chars("2024-01-02")) =>
                   compiled.tag = "Ok" /\ compiled.val.date_after = Some(<<2024, 1, 2>>)
            /\ args.date_before = Some(Chars("2024-1-5")) =>
                   compiled.tag = "Ok" /\ compiled.val.date_before = Some(<<2024, 1, 5>>)

\* a valid lower bound and an upper bound written with slashes
C20_Witness ==
    /\ pc = "exit"
    /\ args.date_after = Some(Chars("2024-01-01"))
    /\ args.date_before = Some(Chars("2024/01/01"))
    /\ compiled = [tag |-> "Err", kind |-> "InvalidDateFormat", flag |-> "--date-before",
                   value |-> Chars("2024/01/01")]
    /\ matching_files = compiled

\* no filter of any kind was given on the command line
Unfiltered ==
    /\ Len(args.tags) = 0 /\ Len(args.titles) = 0 /\ Len(args.authors) = 0
    /\ Len(args.names) = 0 /\ Len(args.fields) = 0
    /\ args.date_after.tag = "None" /\ args.date_before.tag = "None"

\* find_matching_files has returned Ok
Returned == pc = "exit" /\ matching_files.tag = "Ok"

\* the elements of a sequence
Range(q) == {q[i] : i \in 1..Len(q)}

\* no path twice, and each path before the paths that are greater as Path
SortedPaths(q) ==
    \A i, j \in 1..Len(q) :
        i < j => /\ q[i] # q[j]
                 /\ PathLeq(EntryOfPath(q[i]).components, EntryOfPath(q[j]).components)

\* C21: with no filter of any kind, find_matching_files returns every
\* enumerated candidate, sorted, and no file is opened and no Metadata built on
\* the way: unreadable files and files with malformed or oversized frontmatter
\* are listed like the others.
C21_NoFilters ==
    Unfiltered =>
        /\ pc \in {"main", "enumerated", "exit"}
        /\ file = None /\ content = None /\ metadata = None /\ compiled = None
        /\ Returned =>
              /\ Range(matching_files.val) = Candidates(args)
              /\ Range(matching_files.val) = Range(files)
              /\ SortedPaths(matching_files.val)
              /\ (args.glob = Chars("**/*.md") /\ args.depth = None) =>
                     matching_files.val = <<"./Z.md", "./a.md", "./docs/b.md">>
              /\ args.glob = Chars("*.txt") =>
                     matching_files.val = <<"./big.txt", "./notes.txt">>

\* the default run lists the unreadable file and the one with malformed
\* frontmatter after an enumeration in another order
C21_Witness ==
    /\ Returned
    /\ args = DefaultArgs
    /\ files = <<"./docs/b.md", "./a.md", "./Z.md">>
    /\ matching_files.val = <<"./Z.md", "./a.md", "./docs/b.md">>
    /\ ~EntryOfPath("./Z.md").file.readable

\* the text after the last '/' of a path
LastPart(p) ==
    LET chars == Chars(p)
        slashes == {i \in 1..Len(chars) : chars[i] = "/"}
    IN  IF slashes = {} THEN chars ELSE SubSeq(chars, Max(slashes) + 1, Len(chars))

\* what the filename patterns of the runs accept, pattern by pattern
NameAccepts(spec, ignore_case, name) ==
    LET n == IF ignore_case THEN ToLower(name) ELSE name
        lit == IF ignore_case THEN ToLower(spec) ELSE spec
    IN  CASE spec = Chars("^a") -> n # <<>> /\ n[1] = "a"
          [] spec = Chars("\\.md$") ->
                 Len(n) >= 3 /\ SubSeq(n, Len(n) - 2, Len(n)) = Chars(".md")
          [] OTHER -> \E i \in 0..(Len(n) - Len(lit)) : SubSeq(n, i + 1, i + Len(lit)) = lit

\* the final component of the path matches one of the filename patterns given
NameAccepted(p) ==
    \E i \in 1..Len(args.names) : NameAccepts(args.names[i], args.ignore_case, LastPart(p))

\* C22: with filename patterns, only the candidates whose final path component
\* matches one of them are kept, and the others are never opened or read: the
\* file a worker is on, and every path returned, has a matching name.
C22_NameFilter ==
    (Compiled /\ compiled.tag = "Ok" /\ args.names # <<>>) =>
        /\ Range(files) = {p \in Candidates(args) : NameAccepted(p)}
        /\ pending \subseteq Range(files)
        /\ path # "" => NameAccepted(path)
        /\ (file # None \/ content # None \/ metadata # None) => NameAccepted(path)
        /\ Returned => \A i \in 1..Len(matching_files.val) :
                           NameAccepted(matching_files.val[i])

\* the pattern docs matches a directory of ./docs/b.md but no file name: the
\* run ends without a file having been opened
C22_Witness ==
    /\ Returned
    /\ args.names = <<Chars("docs")>>
    /\ "./docs/b.md" \in Candidates(args)
    /\ files = <<>>
    /\ path = "" /\ file = None /\ content = None
    /\ matching_files.val = <<>>

\* the filters compiled and the run past the filename retain
Filtering == Compiled /\ compiled.tag = "Ok"

\* a bounded read of the file meets the ceiling inside its frontmatter block
Oversized(f) ==
    LET last == MAX_FRONTMATTER_LINES + 1
        padded == Len(f.head) + f.pad
    IN  /\ HasFrontmatterStart(f)
        /\ NumLines(f) > MAX_FRONTMATTER_LINES
        /\ \A i \in 2..MinOf(Len(f.head), last) : Trim(f.head[i]) # DELIM
        /\ f.pad > 0 => Trim(FILLER) # DELIM
        /\ \A i \in (padded + 1)..last : Trim(LineAt(f, i)) # DELIM

\* read_file_content fails on the file of the path in this run's read mode
ReadFails(p) ==
    LET f == EntryOfPath(p).file
    IN  ~f.readable \/ (~full_text /\ Oversized(f))

\* the Metadata of the path in this run's read mode, from the file alone
MetadataOf(p) ==
    LET f == EntryOfPath(p).file
        text == IF full_text THEN FileText(f)
                ELSE Join(FirstLines(f, ExpectedCount(f, head_lines)))
    IN  [frontmatter |-> ExtractFrontmatter(text).fm, raw_content |-> text]

\* the verdict of the closure on the path, from the path and the filters alone
VerdictOf(p) ==
    ~ReadFails(p) /\ ShouldIncludeFileByContent(MetadataOf(p), compiled.val)

\* the candidates that pass the filename filter, are read and satisfy the filters
ExpectedSet ==
    {p \in Candidates(args) :
        /\ args.names # <<>> => NameAccepted(p)
        /\ VerdictOf(p)}

\* C23: the sequence find_matching_files returns is the collected paths sorted
\* by path, whatever the order in which the per-file evaluations completed: it
\* is the one sorted arrangement of a set the arguments and the files fix.
C23_SortedResult ==
    (Filtering /\ Returned) =>
        /\ SortedPaths(matching_files.val)
        /\ Len(matching_files.val) = Len(kept)
        /\ Range(matching_files.val) = Range(kept)
        /\ \A q \in Orders(ExpectedSet) : SortedPaths(q) => matching_files.val = q
        /\ (args.tags = <<Chars("go")>> /\ args.glob = Chars("**/*.md")
              /\ args.depth = None)
           => matching_files.val = <<"./a.md", "./docs/b.md">>

\* ./docs/b.md completed before ./a.md and is returned after it
C23_Witness ==
    /\ Returned
    /\ kept = <<"./docs/b.md", "./a.md">>
    /\ matching_files.val = <<"./a.md", "./docs/b.md">>

\* the read warnings on diagnostic output
ReadWarnings == {w \in Range(stderr) : w.msg = ReadWarning("").msg}

\* C24: a file whose read fails during filtering is dropped and nothing else
\* changes: the run still returns Ok, every other file is in the result iff its
\* own verdict says so, and the failure is on diagnostic output iff verbose is on.
C24_ReadFailureIsolated ==
    Filtering =>
        /\ pc = "exit" => matching_files.tag = "Ok"
        /\ ~verbose => ReadWarnings = {}
        /\ ReadWarnings \subseteq {ReadWarning(p) : p \in {q \in Range(files) : ReadFails(q)}}
        /\ (pc = "done" /\ ReadFails(path)) =>
               /\ verdict = FALSE
               /\ verbose => ReadWarning(path) \in ReadWarnings
        /\ Returned =>
               /\ \A p \in Range(files) :
                      IF ReadFails(p) THEN p \notin Range(matching_files.val)
                      ELSE p \in Range(matching_files.val)
                               <=> ShouldIncludeFileByContent(MetadataOf(p), compiled.val)
               /\ verbose => ReadWarnings =
                      {ReadWarning(p) : p \in {q \in Range(files) : ReadFails(q)}}

\* a verbose run with the tag go: ./Z.md cannot be read and is reported, the
\* other two files are returned
C24_Witness ==
    /\ Returned
    /\ verbose
    /\ args.tags = <<Chars("go")>>
    /\ files = <<"./Z.md", "./a.md", "./docs/b.md">>
    /\ ReadWarnings = {ReadWarning("./Z.md")}
    /\ matching_files.val = <<"./a.md", "./docs/b.md">>

NamesOnly ==
    /\ args.names # <<>>
    /\ Len(args.tags) = 0 /\ Len(args.titles) = 0 /\ Len(args.authors) = 0
    /\ Len(args.fields) = 0
    /\ args.date_after.tag = "None" /\ args.date_before.tag = "None"

\* C28: a file is opened and read during filtering only if a content filter
\* has to be checked; with filename patterns alone no file is opened and every
\* candidate whose name matches is returned.
C28_AsStated ==
    (Filtering /\ NamesOnly) =>
        /\ file = None /\ content = None /\ metadata = None
        /\ Returned =>
               Range(matching_files.val) = {p \in Candidates(args) : NameAccepted(p)}

\* C26: contains_tag is true for an Array iff some element contains the
\* pattern as a case-insensitive substring and for a Single iff the scalar does:
\* an empty Array matches no pattern, the empty one included, and Single("")
\* matches the empty pattern only.
C26_ContainsTag ==
    Applied("contains_tag") =>
        LET tv == result.tags
            p == result.pattern
        IN  /\ tv.variant = "Single" => result.value = HoldsNoCase(tv.tag, p)
            /\ tv.variant = "Array" =>
                   result.value = \E i \in 1..Len(tv.tags) : HoldsNoCase(tv.tags[i], p)
            /\ tv = Array(<<>>) => result.value = FALSE
            /\ tv = Single("") => result.value = (p = <<>>)
            /\ (tv = Array(<<"web", "rustlang">>) /\ p \in {Chars("RUST"), Chars("lang")})
               => result.value = TRUE

\* the empty pattern on the empty Array
C26_Witness ==
    /\ Applied("contains_tag")
    /\ result.tags = Array(<<>>)
    /\ result.pattern = <<>>
    /\ result.value = FALSE

\* the keys the typed fields of Frontmatter capture
TypedKeys == {KEY_TITLE, KEY_AUTHOR, KEY_TAGS}

\* C30: the extra map never holds title, author or tags, so has_field on such a
\* name never matches through the frontmatter lookup: it is true iff some line
\* of the raw text, the lines of the frontmatter block included, has the name
\* before its first ':' and the pattern after it.
C30_TypedKeys ==
    /\ (pc \in {"meta", "applied"} /\ metadata.val.frontmatter # None) =>
           \A e \in metadata.val.frontmatter.val.extra : e[1] \notin TypedKeys
    /\ (Applied("has_field") /\ result.field_name \in TypedKeys) =>
           LET md == metadata.val
               ls == Lines(md.raw_content)
           IN  /\ result.value = \E i \in 1..Len(ls) :
                       KeyLineHolds(ls[i], result.field_name, result.pattern_lower)
               /\ md.raw_content = <<>> => result.value = FALSE
               /\ (result.spec = Chars("author:go")
                     /\ md.raw_content
                          = Chars("---\nauthor: Go Doe\nkind: draft\n---\n# Content"))
                  => result.value = TRUE

\* author:go on a text whose frontmatter block holds the author line
C30_Witness ==
    /\ Applied("has_field")
    /\ result.spec = Chars("author:go")
    /\ metadata.val.raw_content = Chars("---\nauthor: Go Doe\nkind: draft\n---\n# Content")
    /\ metadata.val.frontmatter # None
    /\ metadata.val.frontmatter.val.author = Some(Chars("Go Doe"))
    /\ metadata.val.frontmatter.val.extra = {<<KIND, YString(Chars("draft"))>>}
    /\ result.value = TRUE

\* the claim as first stated, for every compiled filter: violated by a tag
\* pattern that holds a line feed on a file with CRLF line endings, where the
\* bounded text joins the two lines with "\n" and the whole file has "\r\n"
C29_AsStated ==
    (Filtered /\ ~full_text) =>
        LET whole == FileText(file)
            fm == ExtractFrontmatter(whole).fm
        IN  /\ metadata.val.frontmatter = fm
            /\ verdict =>
                   ShouldIncludeFileByContent([frontmatter |-> fm, raw_content |-> whole],
                                              filters)

\* no tag pattern of the filters holds a line feed
SingleLineTags(flt) ==
    \A i \in 1..Len(flt.tag_patterns) : NL \notin Range(flt.tag_patterns[i][1])

\* C29: on a file both read modes read, the frontmatter extracted from the
\* bounded text is the frontmatter extracted from the whole file; and when no
\* tag pattern holds a line feed, a file included in bounded mode, whatever the
\* head budget, is included in full-text mode with the same filters.
C29_BoundedNoMorePermissive ==
    (Filtered /\ ~full_text) =>
        LET whole == FileText(file)
            fm == ExtractFrontmatter(whole).fm
        IN  /\ metadata.val.frontmatter = fm
            /\ (verdict /\ SingleLineTags(filters)) =>
                   ShouldIncludeFileByContent([frontmatter |-> fm, raw_content |-> whole],
                                              filters)

\* a bounded read that stopped before the end of a CRLF file with frontmatter,
\* and the file included by a tag filter
C29_Witness ==
    /\ Filtered
    /\ ~full_text
    /\ file.crlf
    /\ line_count < NumLines(file)
    /\ metadata.val.frontmatter # None
    /\ filters.tag_patterns # <<>>
    /\ SingleLineTags(filters)
    /\ verdict = TRUE

====
